---------------------------- MODULE Spec2Model ----------------------------
(***************************************************************************)
(* Fantasy NBA: the ranking engine (src/lib/fantasy-ranking.ts), its cache *)
(* (src/lib/fantasy-ranking-cache.ts) and the market endpoints that fill   *)
(* the store the ranking reads (add-initial-player.ts, buy-player.ts and   *)
(* the triggers of 001_fantasy_schema.sql).                                *)
(*                                                                         *)
(* Time.  An instant is an integer number of ticks since 00:00 UTC of day  *)
(* 0, which is Sunday 2024-10-20; a day has TicksPerDay ticks.  The server *)
(* runs in a time zone tz ticks ahead of UTC: a JavaScript Date's          *)
(* getFullYear/getMonth/getDate/getDay/setHours read and write LOCAL time. *)
(***************************************************************************)
EXTENDS Integers, Sequences, FiniteSets, TLC

VARIABLES
    tz,                  \* offset of the server's local time from UTC, in ticks
    now,                 \* the clock (new Date(), NOW())
    user_teams,          \* table user_teams, in created_at order
    players_on_team,     \* table players_on_team: a set of rows
    transactions,        \* table transactions, in created_at order
    nextId,              \* next players_on_team.id (gen_random_uuid)
    held,                \* history: who really held which player, and when
    response,            \* the last HTTP response of a market endpoint
    rankCall,            \* what the calculateRankings call just made read and built
    rankings,            \* what that call returned: Null, or Some(list)
    runs,                \* calculateRankings calls in progress (fetches in flight)
    team_rankings_cache, \* table team_rankings_cache
    cacheCall,           \* the last getRankingsWithCache call and its result
    lastWrite,           \* history: the latest write of each (userId, teamId)
    calIn,               \* inputs of the calendar functions
    calOut,              \* their results
    reconstruction,      \* getPlayerOwnershipPeriods in progress, step by step
    requests             \* buy-player requests in progress, query by query

vars == <<tz, now, user_teams, players_on_team, transactions, nextId, held,
          response, rankCall, rankings, runs, team_rankings_cache, cacheCall,
          lastWrite, calIn, calOut, reconstruction, requests>>

storeVars == <<user_teams, players_on_team, transactions, nextId, held, response>>
rankVars == <<rankCall, rankings>>
cacheVars == <<team_rankings_cache, cacheCall, lastWrite>>
calVars == <<calIn, calOut>>
stepVars == <<reconstruction, requests>>

---------------------------------------------------------------------------
(* Bounds of the model *)

TicksPerDay == 2
MaxDay == 9

(* Program constants *)

\* new Date('2024-10-22'), the default seasonStartDate: Tuesday, day 2
SeasonStartDay == 2
\* Date.UTC(1970, 0, 1), the date normalizeDate returns for an invalid date
EpochDay == -20016
DaysPerWeek == 7

TZOffsets == {-1, 0, 1}
Days == 0..MaxDay
Instants == 0..(MaxDay * TicksPerDay + TicksPerDay - 1)

Null == <<>>
Some(x) == <<x>>

Max(a, b) == IF a >= b THEN a ELSE b

RECURSIVE SumSeq(_)
SumSeq(s) == IF s = <<>> THEN 0 ELSE Head(s) + SumSeq(Tail(s))

RECURSIVE Pow2(_)
Pow2(n) == IF n = 0 THEN 1 ELSE 2 * Pow2(n - 1)

\* the elements of a set of integers in increasing order
SetToSortedSeq(S) ==
    CHOOSE seq \in {[i \in 1..Cardinality(T) |->
                        CHOOSE x \in T : Cardinality({y \in T : y < x}) = i - 1] :
                    T \in {S}} : TRUE

Range(s) == {s[i] : i \in DOMAIN s}

---------------------------------------------------------------------------
(* Dates.  A date value is a Date object (an instant), a provider date     *)
(* string naming a calendar day ("Oct 22, 2025", "10/22/2025", "20251022": *)
(* all built with new Date(year, month, day), local midnight of that day), *)
(* or a string that parses to an Invalid Date.                             *)

DateObj(t) == [kind |-> "date", v |-> t]
DateStr(d) == [kind |-> "str", v |-> d]
InvalidStr == [kind |-> "invalid", v |-> 0]

\* Date#getFullYear/getMonth/getDate: the local calendar day of an instant
LocalDay(t) == (t + tz) \div TicksPerDay
\* new Date(year, month, day) and setHours(0,0,0,0): local midnight of a day
LocalMidnight(d) == d * TicksPerDay - tz
\* Date.UTC(year, month, day)
UTCMidnight(d) == d * TicksPerDay
\* Date#getDay: 0 is Sunday
DayOfWeek(d) == d % DaysPerWeek

\* normalizeDate: the instant of UTC midnight of the local calendar day
normalizeDate(date) ==
    LET d == IF date.kind = "str" THEN LocalMidnight(date.v) ELSE date.v
    IN  IF date.kind = "invalid"
        THEN UTCMidnight(EpochDay)
        ELSE UTCMidnight(LocalDay(d))

getWeekNumber_NoClamp(date, seasonStartDate) ==
    LET diffTime == normalizeDate(DateObj(date)) - normalizeDate(DateObj(seasonStartDate))
        diffDays == diffTime \div TicksPerDay
    IN  (diffDays \div DaysPerWeek) + 1

\* getWeekNumber(date: Date, seasonStartDate: Date)
getWeekNumber(date, seasonStartDate) ==
    LET normalizedDate == normalizeDate(DateObj(date))
        normalizedStart == normalizeDate(DateObj(seasonStartDate))
        diffTime == normalizedDate - normalizedStart
        diffDays == diffTime \div TicksPerDay
        weekNumber == (diffDays \div DaysPerWeek) + 1
    IN  Max(1, weekNumber)

\* getWeekDates(weekNumber, seasonStartDate): {start, end}
getWeekDates(weekNumber, seasonStartDate) ==
    LET startDays == (weekNumber - 1) * DaysPerWeek
        \* start.setDate(start.getDate() + startDays)
        day1 == LocalDay(seasonStartDate) + startDays
        dayOfWeek == DayOfWeek(day1)
        diffToMonday == IF dayOfWeek = 0 THEN -6 ELSE 1 - dayOfWeek
        monday == day1 + diffToMonday
    IN  [start |-> LocalMidnight(monday),
         end   |-> LocalMidnight(monday + 6) + TicksPerDay - 1]

---------------------------------------------------------------------------
(* The weekly points aggregator *)

\* the filter of calculateWeeklyPoints, with the sale day counted as well
InOwnership_SaleDayInclusive(game, purchaseDate, saleDate) ==
    LET gameDate == normalizeDate(game.date)
    IN  /\ gameDate >= normalizeDate(DateObj(purchaseDate))
        /\ (saleDate = Null \/ gameDate <= normalizeDate(DateObj(saleDate[1])))

\* gameLogs.filter(...): does the game fall inside the ownership period?
InOwnership(game, purchaseDate, saleDate) ==
    LET normalizedPurchaseDate == normalizeDate(DateObj(purchaseDate))
        normalizedSaleDate ==
            IF saleDate # Null THEN Some(normalizeDate(DateObj(saleDate[1]))) ELSE Null
        gameDate == normalizeDate(game.date)
        isAfterPurchase == gameDate >= normalizedPurchaseDate
        isBeforeSale == normalizedSaleDate = Null \/ gameDate < normalizedSaleDate[1]
    IN  isAfterPurchase /\ isBeforeSale

\* weeklyPointsMap after filteredGames.forEach: week number -> points
RECURSIVE WeeklyPointsMap(_, _, _)
WeeklyPointsMap(games, normalizedSeasonStart, map) ==
    IF games = <<>> THEN map
    ELSE LET game == Head(games)
             gameDate == normalizeDate(game.date)
             weekNumber == getWeekNumber(gameDate, normalizedSeasonStart)
             currentPoints == IF weekNumber \in DOMAIN map THEN map[weekNumber] ELSE 0
             set == [w \in DOMAIN map \cup {weekNumber} |->
                        IF w = weekNumber THEN currentPoints + game.points ELSE map[w]]
         IN  WeeklyPointsMap(Tail(games), normalizedSeasonStart, set)

\* calculateWeeklyPoints(gameLogs, purchaseDate, saleDate, seasonStartDate):
\* the WeeklyPoints of one ownership period, sorted by weekNumber
calculateWeeklyPoints(gameLogs, purchaseDate, saleDate, seasonStartDate) ==
    LET normalizedSeasonStart == normalizeDate(DateObj(seasonStartDate))
        filteredGames ==
            SelectSeq(gameLogs, LAMBDA game : InOwnership(game, purchaseDate, saleDate))
        weeklyPointsMap == WeeklyPointsMap(filteredGames, normalizedSeasonStart, <<>>)
        weeks == SetToSortedSeq(DOMAIN weeklyPointsMap)
    IN  [i \in 1..Len(weeks) |->
            LET dates == getWeekDates(weeks[i], normalizedSeasonStart)
            IN  [weekNumber    |-> weeks[i],
                 weekStartDate |-> dates.start,
                 weekEndDate   |-> dates.end,
                 points        |-> weeklyPointsMap[weeks[i]]]]

---------------------------------------------------------------------------
(* The ownership interval reconstructor.  teams, playersOnTeam and         *)
(* transactions are the rows the three queries return, in the order the    *)
(* queries ask for.  player_name is display text and is left out.          *)

\* Array.prototype.find: the index of the first element that passes, or 0
FirstIndex(s, Test(_)) ==
    IF \E i \in DOMAIN s : Test(s[i])
    THEN CHOOSE i \in DOMAIN s : Test(s[i]) /\ \A j \in 1..(i - 1) : ~Test(s[j])
    ELSE 0

\* the join user_teams(user_id) of a row: Some(user_id), or Null
UserOfTeam(teams, teamId) ==
    LET i == FirstIndex(teams, LAMBDA t : t.id = teamId)
    IN  IF i = 0 THEN Null ELSE Some(teams[i].user_id)

\* Paso 1 with the period to close looked up without the seller: the first
\* open period of the player, whoever holds it
RECURSIVE PlayerHistoryMap_CloseAnyOpen(_, _, _)
PlayerHistoryMap_CloseAnyOpen(teams, txs, acc) ==
    IF txs = <<>> THEN acc
    ELSE
      LET transaction == Head(txs)
          buyerUserId == UserOfTeam(teams, transaction.buyer_team_id)
          sellerUserId == UserOfTeam(teams, transaction.seller_team_id)
          playerId == transaction.player_id
          transactionDate == transaction.created_at
          history == IF playerId \in DOMAIN acc.map THEN acc.map[playerId] ELSE <<>>
          previousPeriod == FirstIndex(history, LAMBDA p : p.saleDate = Null)
          closed == IF previousPeriod = 0 THEN history
                    ELSE [history EXCEPT ![previousPeriod].saleDate = Some(transactionDate)]
          pushed == Append(closed, [userId       |-> buyerUserId[1],
                                    teamId       |-> transaction.buyer_team_id,
                                    purchaseDate |-> transactionDate,
                                    saleDate     |-> Null])
          next == [map  |-> [q \in DOMAIN acc.map \cup {playerId} |->
                                IF q = playerId THEN pushed ELSE acc.map[q]],
                   keys |-> IF playerId \in DOMAIN acc.map THEN acc.keys
                            ELSE Append(acc.keys, playerId)]
      IN  IF buyerUserId = Null \/ sellerUserId = Null
          THEN PlayerHistoryMap_CloseAnyOpen(teams, Tail(txs), acc)
          ELSE PlayerHistoryMap_CloseAnyOpen(teams, Tail(txs), next)

\* Paso 1: playerHistoryMap after transactions.forEach; keys holds the players
\* in the order the Map got them
RECURSIVE PlayerHistoryMap(_, _, _)
PlayerHistoryMap(teams, txs, acc) ==
    IF txs = <<>> THEN acc
    ELSE
      LET transaction == Head(txs)
          buyerUserId == UserOfTeam(teams, transaction.buyer_team_id)
          sellerUserId == UserOfTeam(teams, transaction.seller_team_id)
          playerId == transaction.player_id
          transactionDate == transaction.created_at
          history == IF playerId \in DOMAIN acc.map THEN acc.map[playerId] ELSE <<>>
          previousPeriod == FirstIndex(history, LAMBDA p :
                                /\ p.userId = sellerUserId[1]
                                /\ p.teamId = transaction.seller_team_id
                                /\ p.saleDate = Null)
          closed == IF previousPeriod = 0 THEN history
                    ELSE [history EXCEPT ![previousPeriod].saleDate = Some(transactionDate)]
          pushed == Append(closed, [userId       |-> buyerUserId[1],
                                    teamId       |-> transaction.buyer_team_id,
                                    purchaseDate |-> transactionDate,
                                    saleDate     |-> Null])
          next == [map  |-> [q \in DOMAIN acc.map \cup {playerId} |->
                                IF q = playerId THEN pushed ELSE acc.map[q]],
                   keys |-> IF playerId \in DOMAIN acc.map THEN acc.keys
                            ELSE Append(acc.keys, playerId)]
      IN  IF buyerUserId = Null \/ sellerUserId = Null
          THEN PlayerHistoryMap(teams, Tail(txs), acc)
          ELSE PlayerHistoryMap(teams, Tail(txs), next)

\* Paso 2 taking every start from the roster row, whatever the transactions
\* say
RosterPeriods_RowDate(teams, playersOnTeam, map) ==
    LET known == SelectSeq(playersOnTeam, LAMBDA player :
                     UserOfTeam(teams, player.team_id) # Null)
    IN  [i \in 1..Len(known) |->
            [userId       |-> UserOfTeam(teams, known[i].team_id)[1],
             teamId       |-> known[i].team_id,
             playerId     |-> known[i].player_id,
             purchaseDate |-> IF known[i].purchased_at # Null
                              THEN known[i].purchased_at[1] ELSE known[i].created_at,
             saleDate     |-> Null]]

\* Paso 2: one open period per row of players_on_team
RosterPeriods(teams, playersOnTeam, map) ==
    LET known == SelectSeq(playersOnTeam, LAMBDA player :
                     UserOfTeam(teams, player.team_id) # Null)
    IN  [i \in 1..Len(known) |->
            LET player == known[i]
                userId == UserOfTeam(teams, player.team_id)[1]
                playerId == player.player_id
                purchaseDate == IF player.purchased_at # Null
                                THEN player.purchased_at[1] ELSE player.created_at
                history == IF playerId \in DOMAIN map THEN map[playerId] ELSE <<>>
                existingActivePeriod == FirstIndex(history, LAMBDA p :
                                            /\ p.userId = userId
                                            /\ p.teamId = player.team_id
                                            /\ p.saleDate = Null)
            IN  [userId       |-> userId,
                 teamId       |-> player.team_id,
                 playerId     |-> playerId,
                 purchaseDate |-> IF existingActivePeriod # 0
                                  THEN history[existingActivePeriod].purchaseDate
                                  ELSE purchaseDate,
                 saleDate     |-> Null]]

\* alreadyAdded: a period of the same player, user and team whose purchase
\* date is less than a second away (the same tick)
AlreadyAdded(periods, playerId, period) ==
    \E i \in DOMAIN periods :
        /\ periods[i].playerId = playerId
        /\ periods[i].userId = period.userId
        /\ periods[i].teamId = period.teamId
        /\ periods[i].purchaseDate = period.purchaseDate

\* Paso 3, history.forEach: the closed periods of one player's history
RECURSIVE AddClosedPeriods(_, _, _)
AddClosedPeriods(periods, playerId, history) ==
    IF history = <<>> THEN periods
    ELSE LET period == Head(history)
             add == period.saleDate # Null /\ ~AlreadyAdded(periods, playerId, period)
         IN  AddClosedPeriods(
                 IF add THEN Append(periods, [userId       |-> period.userId,
                                              teamId       |-> period.teamId,
                                              playerId     |-> playerId,
                                              purchaseDate |-> period.purchaseDate,
                                              saleDate     |-> period.saleDate])
                 ELSE periods,
                 playerId, Tail(history))

\* Paso 3, playerHistoryMap.forEach
RECURSIVE HistoricalPeriods(_, _, _)
HistoricalPeriods(periods, keys, map) ==
    IF keys = <<>> THEN periods
    ELSE HistoricalPeriods(AddClosedPeriods(periods, Head(keys), map[Head(keys)]),
                           Tail(keys), map)

\* getPlayerOwnershipPeriods
getPlayerOwnershipPeriods(teams, playersOnTeam, txs) ==
    LET playerHistoryMap == PlayerHistoryMap(teams, txs, [map |-> <<>>, keys |-> <<>>])
        current == RosterPeriods(teams, playersOnTeam, playerHistoryMap.map)
    IN  HistoricalPeriods(current, playerHistoryMap.keys, playerHistoryMap.map)

---------------------------------------------------------------------------
(* The statistics provider.  getPlayerAllGameLogs maps the rows of the     *)
(* provider's answer to {date, points}; every game of a player has its own *)
(* power of two as points, so a sum of points names the games it counts.   *)

Players == {1, 2}

GamePoints(playerId, day) == Pow2(2 * day + playerId)

\* the days on which a player has a game
GameDays(playerId) == IF playerId = 1 THEN Days ELSE {d \in Days : d % 2 = 0}

\* the rows of the provider's answer, oldest first; the second player's log
\* carries one row whose GAME_DATE does not parse
ProviderLog(playerId) ==
    LET days == SetToSortedSeq(GameDays(playerId))
        rows == [i \in 1..Len(days) |->
                    [date |-> DateStr(days[i]), points |-> GamePoints(playerId, days[i])]]
    IN  IF playerId = 1 THEN rows
        ELSE <<[date |-> InvalidStr, points |-> 1]>> \o rows

---------------------------------------------------------------------------
(* The ranking calculator.  A Map is a sequence of entries in insertion    *)
(* order; team_name is the name's place in the order of localeCompare.     *)

\* the game logs looked up by the place the fetch took in the Map instead of
\* by the player's key
GameLogsOf_ByPosition(playerGameLogsMap, playerId) ==
    IF playerId \in DOMAIN playerGameLogsMap
    THEN playerGameLogsMap[playerId].gameLogs ELSE <<>>

\* Map.prototype.get on playerGameLogsMap, || []
GameLogsOf(playerGameLogsMap, playerId) ==
    LET i == FirstIndex(playerGameLogsMap, LAMBDA e : e.playerId = playerId)
    IN  IF i = 0 THEN <<>> ELSE playerGameLogsMap[i].gameLogs

\* ownershipPeriods.map(p => p.playerId), without the Set
RECURSIVE UniquePlayerIds_PerPeriod(_, _)
UniquePlayerIds_PerPeriod(periods, acc) ==
    IF periods = <<>> THEN acc
    ELSE UniquePlayerIds_PerPeriod(Tail(periods), Append(acc, Head(periods).playerId))

\* [...new Set(ownershipPeriods.map(p => p.playerId))]
RECURSIVE UniquePlayerIds(_, _)
UniquePlayerIds(periods, acc) ==
    IF periods = <<>> THEN acc
    ELSE UniquePlayerIds(Tail(periods),
             IF Head(periods).playerId \in Range(acc) THEN acc
             ELSE Append(acc, Head(periods).playerId))

NewRanking(userId, teamId, teamName) ==
    [userId |-> userId, teamId |-> teamId, teamName |-> teamName,
     totalPoints |-> 0, weeklyBreakdown |-> <<>>]

\* teams.forEach(team => userRankingsMap.set(team.user_id, ...))
RECURSIVE InitRankings(_, _)
InitRankings(teams, map) ==
    IF teams = <<>> THEN map
    ELSE LET team == Head(teams)
             i == FirstIndex(map, LAMBDA r : r.userId = team.user_id)
             ranking == NewRanking(team.user_id, team.id, team.team_name)
         IN  InitRankings(Tail(teams),
                 IF i = 0 THEN Append(map, ranking) ELSE [map EXCEPT ![i] = ranking])

\* the same loop with weeklyBreakdown.set(weekNumber, weekly.points)
RECURSIVE AddWeeklyPoints_Overwrite(_, _)
AddWeeklyPoints_Overwrite(ranking, weeklyPoints) ==
    IF weeklyPoints = <<>> THEN ranking
    ELSE LET weekly == Head(weeklyPoints)
             breakdown == ranking.weeklyBreakdown
         IN  AddWeeklyPoints_Overwrite(
                 [ranking EXCEPT
                     !.weeklyBreakdown =
                         [w \in DOMAIN breakdown \cup {weekly.weekNumber} |->
                             IF w = weekly.weekNumber THEN weekly.points ELSE breakdown[w]],
                     !.totalPoints = ranking.totalPoints + weekly.points],
                 Tail(weeklyPoints))

\* weeklyPoints.forEach(weekly => ...): add one period's weeks to a ranking
RECURSIVE AddWeeklyPoints(_, _)
AddWeeklyPoints(ranking, weeklyPoints) ==
    IF weeklyPoints = <<>> THEN ranking
    ELSE LET weekly == Head(weeklyPoints)
             breakdown == ranking.weeklyBreakdown
             currentWeekPoints == IF weekly.weekNumber \in DOMAIN breakdown
                                  THEN breakdown[weekly.weekNumber] ELSE 0
             newWeekPoints == currentWeekPoints + weekly.points
         IN  AddWeeklyPoints(
                 [ranking EXCEPT
                     !.weeklyBreakdown =
                         [w \in DOMAIN breakdown \cup {weekly.weekNumber} |->
                             IF w = weekly.weekNumber THEN newWeekPoints ELSE breakdown[w]],
                     !.totalPoints = ranking.totalPoints + weekly.points],
                 Tail(weeklyPoints))

\* for (const period of ownershipPeriods): userRankingsMap after the loop
RECURSIVE ProcessPeriods(_, _, _, _)
ProcessPeriods(teams, periods, playerGameLogsMap, map) ==
    IF periods = <<>> THEN map
    ELSE
      LET period == Head(periods)
          gameLogs == GameLogsOf(playerGameLogsMap, period.playerId)
          found == FirstIndex(map, LAMBDA r : r.userId = period.userId)
          team == FirstIndex(teams, LAMBDA t : t.id = period.teamId)
          map1 == IF found # 0 THEN map
                  ELSE Append(map, NewRanking(period.userId, period.teamId,
                                              teams[team].team_name))
          at == IF found # 0 THEN found ELSE Len(map1)
          weeklyPoints == calculateWeeklyPoints(gameLogs, period.purchaseDate,
                              period.saleDate, UTCMidnight(SeasonStartDay))
      IN  IF found = 0 /\ team = 0
          THEN ProcessPeriods(teams, Tail(periods), playerGameLogsMap, map)
          ELSE ProcessPeriods(teams, Tail(periods), playerGameLogsMap,
                   [map1 EXCEPT ![at] = AddWeeklyPoints(map1[at], weeklyPoints)])

\* the comparator of rankings.sort, ignoring the team name
Compare_PointsOnly(a, b) ==
    IF b.totalPoints # a.totalPoints THEN b.totalPoints - a.totalPoints ELSE 0

\* the comparator of rankings.sort: negative when a goes first
Compare(a, b) ==
    IF b.totalPoints # a.totalPoints THEN b.totalPoints - a.totalPoints
    ELSE a.teamName - b.teamName

\* Array.prototype.sort, which is stable: an element goes before the first
\* one already placed that it must precede, after the others
RECURSIVE SortRankings(_, _)
SortRankings(todo, done) ==
    IF todo = <<>> THEN done
    ELSE LET x == Head(todo)
             i == FirstIndex(done, LAMBDA y : Compare(x, y) < 0)
         IN  SortRankings(Tail(todo),
                 IF i = 0 THEN Append(done, x)
                 ELSE SubSeq(done, 1, i - 1) \o <<x>> \o SubSeq(done, i, Len(done)))

\* teams.forEach(team => { if (!rankedUserIds.has(team.user_id)) rankings.push })
RECURSIVE AddMissingTeams(_, _, _)
AddMissingTeams(teams, rankedUserIds, rankingList) ==
    IF teams = <<>> THEN rankingList
    ELSE LET team == Head(teams)
         IN  AddMissingTeams(Tail(teams), rankedUserIds,
                 IF team.user_id \in rankedUserIds THEN rankingList
                 ELSE Append(rankingList, NewRanking(team.user_id, team.id, team.team_name)))

\* calculateRankings, but leaving the teams without points out of the list
calculateRankings_DropZero(teams, periods, playerGameLogsMap) ==
    LET userRankingsMap == ProcessPeriods(teams, periods, playerGameLogsMap,
                                          InitRankings(teams, <<>>))
    IN  SortRankings(SelectSeq(userRankingsMap, LAMBDA r : r.totalPoints > 0), <<>>)

\* calculateRankings, from the team list, the ownership periods and the
\* fetched game logs to the sorted list it returns
calculateRankings(teams, periods, playerGameLogsMap) ==
    IF teams = <<>> THEN <<>>
    ELSE
      LET userRankingsMap == ProcessPeriods(teams, periods, playerGameLogsMap,
                                            InitRankings(teams, <<>>))
          sorted == SortRankings(userRankingsMap, <<>>)
          rankedUserIds == {sorted[i].userId : i \in DOMAIN sorted}
      IN  SortRankings(AddMissingTeams(teams, rankedUserIds, sorted), <<>>)

\* getPlayerAllGameLogs at instant t: the provider answers with the games
\* played so far
getPlayerAllGameLogs(playerId, t) ==
    SelectSeq(ProviderLog(playerId), LAMBDA game :
        game.date.kind = "invalid" \/ UTCMidnight(game.date.v) <= t)

\* the fetches of one call, all answered: playerGameLogsMap in the order of
\* playerIds
AllGameLogs(playerIds, t) ==
    [i \in 1..Len(playerIds) |->
        [playerId |-> playerIds[i], gameLogs |-> getPlayerAllGameLogs(playerIds[i], t)]]

---------------------------------------------------------------------------
(* Variables a specification does not use keep these values *)

NoResponse == [status |-> 0, op |-> "none"]
NoRankCall == [teams |-> <<>>, playersOnTeam |-> <<>>, transactions |-> <<>>,
               periods |-> <<>>, playerGameLogsMap |-> <<>>]
NoCacheCall == [called |-> FALSE, at |-> 0, maxAgeMinutes |-> 0, before |-> {},
                calculated |-> FALSE, result |-> <<>>]
NoCalIn == [fn |-> "none", date |-> 0, seasonStartDate |-> 0, week |-> 0,
            playerId |-> 0, purchaseDate |-> 0, saleDate |-> Null]
NoCalOut == [weekNumber |-> 0, rangeWeek |-> 0, weekDates |-> Null, weekly |-> Null]

StoreIdle ==
    /\ user_teams = <<>>
    /\ players_on_team = {}
    /\ transactions = <<>>
    /\ nextId = 1
    /\ held = {}
    /\ response = NoResponse
RankIdle == rankCall = NoRankCall /\ rankings = Null
RunsIdle == runs = <<>>
CacheIdle == team_rankings_cache = {} /\ cacheCall = NoCacheCall /\ lastWrite = {}
CalIdle == calIn = NoCalIn /\ calOut = NoCalOut
StepsIdle == reconstruction = Null /\ requests = <<>>

---------------------------------------------------------------------------
(* The store and the market endpoints.  A handler is one step: it reads,   *)
(* checks and writes as its code does, the triggers of the schema fire on  *)
(* its writes, and response is what it answers.                            *)

Users == {1, 2}

\* budget DECIMAL DEFAULT 1000000.00
InitialBudget == 1000000
MaxStarters == 5
MaxBench == 4
MaxTeamPlayers == 9

\* the clock stops at MaxTime; the market closes after MaxTransactions sales
\* and the teams take MaxRows initial players between them
MaxTime == 2
MaxTransactions == 1
MaxRows == 2

\* the prices a request may carry
Prices == {400000}

\* user_teams.id of the team created for a user (gen_random_uuid)
TeamIdOf(userId) == 10 + userId
\* `Equipo de ${userId.slice(0, 8)}`: the name of user 2's team sorts before
\* the name of user 1's
TeamNameOf(userId) == 3 - userId

TeamIndex(teams, userId) == FirstIndex(teams, LAMBDA t : t.user_id = userId)

\* getOrCreateUserTeam: the table after the call
getOrCreateUserTeam(teams, userId) ==
    IF TeamIndex(teams, userId) # 0 THEN teams
    ELSE Append(teams, [id        |-> TeamIdOf(userId),
                        user_id   |-> userId,
                        team_name |-> TeamNameOf(userId),
                        budget    |-> InitialBudget])

\* getTeamPlayers
getTeamPlayers(rows, teamId) == {r \in rows : r.team_id = teamId}

\* trigger check_player_limits, BEFORE INSERT: TRUE when it raises
LimitsRaiseOnInsert(rows, new) ==
    LET starter_count == Cardinality({r \in rows : r.team_id = new.team_id /\ r.is_starter})
        bench_count == Cardinality({r \in rows : r.team_id = new.team_id /\ ~r.is_starter})
    IN  \/ new.is_starter /\ starter_count >= MaxStarters
        \/ ~new.is_starter /\ bench_count >= MaxBench

\* trigger check_player_limits, BEFORE UPDATE: TRUE when it raises
LimitsRaiseOnUpdate(rows, old, new) ==
    LET starter_count == Cardinality({r \in rows :
            r.team_id = new.team_id /\ r.is_starter /\ r.id # new.id})
        bench_count == Cardinality({r \in rows :
            r.team_id = new.team_id /\ ~r.is_starter /\ r.id # new.id})
    IN  /\ old.is_starter # new.is_starter
        /\ \/ new.is_starter /\ ~old.is_starter /\ starter_count >= MaxStarters
           \/ ~new.is_starter /\ old.is_starter /\ bench_count >= MaxBench

CooldownDays == 7

\* trigger check_cooldown_expired, BEFORE UPDATE
check_cooldown_expired(new) ==
    IF /\ new.purchased_at # Null
       /\ new.purchased_at[1] < now - CooldownDays * TicksPerDay
       /\ ~new.can_be_sold
    THEN [new EXCEPT !.can_be_sold = TRUE]
    ELSE new

\* trigger set_purchase_cooldown, BEFORE INSERT OR UPDATE
set_purchase_cooldown(new) ==
    IF new.purchased_from_user_id # Null
    THEN [new EXCEPT !.can_be_sold = FALSE]
    ELSE new

\* UNIQUE(team_id, player_id): TRUE when the new row breaks it
UniqueViolated(rows, new) ==
    \E r \in rows : r.id # new.id /\ r.team_id = new.team_id /\ r.player_id = new.player_id

Respond(status, op) == [status |-> status, op |-> op]

\* the row add-initial-player inserts
InitialRow(id, teamId, playerId, isStarter, price, t) ==
    [id                     |-> id,
     team_id                |-> teamId,
     player_id              |-> playerId,
     is_starter             |-> isStarter,
     purchase_price         |-> price,
     release_clause         |-> Null,
     purchased_at           |-> Some(t),
     purchased_from_user_id |-> Null,
     can_be_sold            |-> TRUE,
     created_at             |-> t]

\* POST /api/fantasy/add-initial-player: the store after the request and the
\* response
AddInitialPlayerResult(userId, playerId, price) ==
    LET teams1 == getOrCreateUserTeam(user_teams, userId)
        ti == TeamIndex(teams1, userId)
        userTeam == teams1[ti]
        currentPlayers == getTeamPlayers(players_on_team, userTeam.id)
        playerExists == \E p \in currentPlayers : p.player_id = playerId
        startersCount == Cardinality({p \in currentPlayers : p.is_starter})
        isStarter == startersCount < MaxStarters
        inserted == set_purchase_cooldown(
                        InitialRow(nextId, userTeam.id, playerId, isStarter, price, now))
        insertError == LimitsRaiseOnInsert(players_on_team, inserted)
                        \/ UniqueViolated(players_on_team, inserted)
        unchanged == [teams |-> teams1, rows |-> players_on_team, added |-> FALSE]
    IN  IF price = 0 \/ price < 0
        THEN [unchanged EXCEPT !.teams = user_teams] @@ [response |-> Respond(400, "add")]
        ELSE IF userTeam.budget < price
        THEN unchanged @@ [response |-> Respond(400, "add")]
        ELSE IF Cardinality(currentPlayers) >= MaxTeamPlayers
        THEN unchanged @@ [response |-> Respond(400, "add")]
        ELSE IF playerExists
        THEN unchanged @@ [response |-> Respond(400, "add")]
        ELSE IF insertError
        THEN unchanged @@ [response |-> Respond(500, "add")]
        ELSE [teams    |-> [teams1 EXCEPT ![ti].budget = userTeam.budget - price],
              rows     |-> players_on_team \cup {inserted},
              added    |-> TRUE,
              response |-> Respond(200, "add")]

AddInitialPlayer(userId, playerId, price) ==
    LET result == AddInitialPlayerResult(userId, playerId, price)
    IN  /\ user_teams' = result.teams
        /\ players_on_team' = result.rows
        /\ nextId' = IF result.added THEN nextId + 1 ELSE nextId
        /\ response' = result.response
        /\ held' = IF result.added
                   THEN held \cup {[teamId |-> TeamIdOf(userId), playerId |-> playerId,
                                    from |-> now, to |-> Null]}
                   ELSE held
        /\ rankCall' = NoRankCall /\ rankings' = Null
        /\ UNCHANGED <<tz, now, transactions, runs, cacheVars, calVars, stepVars>>

\* POST /api/fantasy/buy-player: the store after the request and the response
BuyPlayerResult(userId, playerOnTeamId, price) ==
    LET teams1 == getOrCreateUserTeam(user_teams, userId)
        bi == TeamIndex(teams1, userId)
        buyerTeam == teams1[bi]
        budget == buyerTeam.budget
        currentPlayers == getTeamPlayers(players_on_team, buyerTeam.id)
        found == {r \in players_on_team : r.id = playerOnTeamId}
        playerToBuy == CHOOSE r \in found : TRUE
        sellerTeamId == playerToBuy.team_id
        sellerUserId == UserOfTeam(teams1, sellerTeamId)
        si == FirstIndex(teams1, LAMBDA t : t.id = sellerTeamId)
        \* 1. and 2.: the two budgets
        teams2 == [teams1 EXCEPT ![bi].budget = budget - price]
        teams3 == IF si = 0 THEN teams2
                  ELSE [teams2 EXCEPT ![si].budget = teams2[si].budget + price]
        \* 3.: the row moves to the buyer's team, through the BEFORE UPDATE triggers
        updated == [playerToBuy EXCEPT
                       !.team_id = buyerTeam.id,
                       !.purchase_price = price,
                       !.release_clause = Null,
                       !.purchased_from_user_id = sellerUserId,
                       !.purchased_at = Some(now),
                       !.can_be_sold = FALSE,
                       !.is_starter = Cardinality(currentPlayers) < MaxStarters]
        new == set_purchase_cooldown(check_cooldown_expired(updated))
        moveError == LimitsRaiseOnUpdate(players_on_team, playerToBuy, updated)
                      \/ UniqueViolated(players_on_team, new)
        \* 4.: the transaction
        transaction == [buyer_team_id       |-> buyerTeam.id,
                        seller_team_id      |-> sellerTeamId,
                        player_id           |-> playerToBuy.player_id,
                        transaction_price   |-> price,
                        release_clause_paid |-> playerToBuy.release_clause,
                        created_at          |-> now]
        unchanged == [teams |-> teams1, rows |-> players_on_team,
                      txs |-> transactions, sold |-> Null]
    IN  IF playerOnTeamId = 0 \/ price = 0
        THEN [unchanged EXCEPT !.teams = user_teams] @@ [response |-> Respond(400, "buy")]
        ELSE IF budget < price
        THEN unchanged @@ [response |-> Respond(400, "buy")]
        ELSE IF Cardinality(currentPlayers) >= MaxTeamPlayers
        THEN unchanged @@ [response |-> Respond(400, "buy")]
        ELSE IF found = {}
        THEN unchanged @@ [response |-> Respond(404, "buy")]
        ELSE IF ~playerToBuy.can_be_sold
        THEN unchanged @@ [response |-> Respond(400, "buy")]
        ELSE IF sellerUserId = Some(userId)
        THEN unchanged @@ [response |-> Respond(400, "buy")]
        ELSE IF sellerUserId = Null
        THEN unchanged @@ [response |-> Respond(500, "buy")]
        ELSE IF moveError
        THEN [unchanged EXCEPT !.teams = teams3] @@ [response |-> Respond(500, "buy")]
        ELSE [teams    |-> teams3,
              rows     |-> (players_on_team \ {playerToBuy}) \cup {new},
              txs      |-> Append(transactions, transaction),
              sold     |-> Some(playerToBuy),
              response |-> Respond(200, "buy")]

BuyPlayer(userId, playerOnTeamId, price) ==
    LET result == BuyPlayerResult(userId, playerOnTeamId, price)
    IN  /\ user_teams' = result.teams
        /\ players_on_team' = result.rows
        /\ transactions' = result.txs
        /\ response' = result.response
        /\ held' = IF result.sold = Null THEN held
                   ELSE LET old == result.sold[1]
                            open == {h \in held : /\ h.teamId = old.team_id
                                                  /\ h.playerId = old.player_id
                                                  /\ h.to = Null}
                        IN  (held \ open)
                            \cup {[h EXCEPT !.to = Some(now)] : h \in open}
                            \cup {[teamId |-> TeamIdOf(userId), playerId |-> old.player_id,
                                   from |-> now, to |-> Null]}
        /\ rankCall' = NoRankCall /\ rankings' = Null
        /\ UNCHANGED <<tz, now, nextId, runs, cacheVars, calVars, stepVars>>

\* the triggers if the expiry check had no date test and fired last
RowAfterUpdate_NoWait(updated) ==
    IF updated.purchased_at # Null /\ ~updated.can_be_sold
    THEN [updated EXCEPT !.can_be_sold = TRUE]
    ELSE set_purchase_cooldown(updated)

\* the BEFORE UPDATE triggers that touch the row, in the order they fire
\* (by trigger name): check_cooldown_expired, then set_purchase_cooldown
RowAfterUpdate(updated) == set_purchase_cooldown(check_cooldown_expired(updated))

\* POST /api/fantasy/move-player: the store after the request and the
\* response
MovePlayerResult(userId, playerId, isStarter) ==
    LET teams1 == getOrCreateUserTeam(user_teams, userId)
        userTeam == teams1[TeamIndex(teams1, userId)]
        currentPlayers == getTeamPlayers(players_on_team, userTeam.id)
        found == {p \in currentPlayers : p.id = playerId}
        playerToMove == CHOOSE p \in found : TRUE
        startersCount == Cardinality({p \in currentPlayers : p.is_starter /\ p.id # playerId})
        benchCount == Cardinality({p \in currentPlayers : ~p.is_starter /\ p.id # playerId})
        updated == [playerToMove EXCEPT !.is_starter = isStarter]
        error == LimitsRaiseOnUpdate(players_on_team, playerToMove, updated)
        unchanged == [teams |-> teams1, rows |-> players_on_team]
    IN  IF playerId = 0
        THEN [unchanged EXCEPT !.teams = user_teams] @@ [response |-> Respond(400, "move")]
        ELSE IF found = {}
        THEN unchanged @@ [response |-> Respond(404, "move")]
        ELSE IF playerToMove.is_starter = isStarter
        THEN unchanged @@ [response |-> Respond(200, "move")]
        ELSE IF isStarter /\ ~playerToMove.is_starter /\ startersCount >= MaxStarters
        THEN unchanged @@ [response |-> Respond(400, "move")]
        ELSE IF ~isStarter /\ playerToMove.is_starter /\ benchCount >= MaxBench
        THEN unchanged @@ [response |-> Respond(400, "move")]
        ELSE IF error
        THEN unchanged @@ [response |-> Respond(500, "move")]
        ELSE [teams    |-> teams1,
              rows     |-> (players_on_team \ {playerToMove})
                              \cup {RowAfterUpdate(updated)},
              response |-> Respond(200, "move")]

MovePlayer(userId, playerId, isStarter) ==
    LET result == MovePlayerResult(userId, playerId, isStarter)
    IN  /\ user_teams' = result.teams
        /\ players_on_team' = result.rows
        /\ response' = result.response
        /\ rankCall' = NoRankCall /\ rankings' = Null
        /\ UNCHANGED <<tz, now, transactions, nextId, held, runs, cacheVars, calVars, stepVars>>

\* SQL function swap_players(p_player1_id, p_player2_id, p_team_id): the
\* limits trigger is disabled around its two updates
swap_players(rows, p_player1_id, p_player2_id, p_team_id) ==
    LET found1 == {r \in rows : r.id = p_player1_id /\ r.team_id = p_team_id}
        found2 == {r \in rows : r.id = p_player2_id /\ r.team_id = p_team_id}
        player1_record == CHOOSE r \in found1 : TRUE
        player2_record == CHOOSE r \in found2 : TRUE
    IN  IF found1 = {} \/ found2 = {}
        THEN [success |-> FALSE, rows |-> rows]
        ELSE IF player1_record.is_starter = player2_record.is_starter
        THEN [success |-> FALSE, rows |-> rows]
        ELSE [success |-> TRUE,
              rows |-> (rows \ {player1_record, player2_record})
                  \cup {RowAfterUpdate([player1_record EXCEPT
                                           !.is_starter = player2_record.is_starter]),
                        RowAfterUpdate([player2_record EXCEPT
                                           !.is_starter = player1_record.is_starter])}]

\* POST /api/fantasy/swap-players: the store after the request and the
\* response; rpcWorks tells whether the call of swap_players returns or
\* errors (then the handler makes the two updates itself)
SwapPlayersResult(userId, player1Id, player2Id, rpcWorks) ==
    LET teams1 == getOrCreateUserTeam(user_teams, userId)
        userTeam == teams1[TeamIndex(teams1, userId)]
        currentPlayers == getTeamPlayers(players_on_team, userTeam.id)
        found1 == {p \in currentPlayers : p.id = player1Id}
        found2 == {p \in currentPlayers : p.id = player2Id}
        player1 == CHOOSE p \in found1 : TRUE
        player2 == CHOOSE p \in found2 : TRUE
        swapResult == swap_players(players_on_team, player1Id, player2Id, userTeam.id)
        \* first the one that goes from bench to starter, then the other
        first == IF player1.is_starter /\ ~player2.is_starter THEN player2 ELSE player1
        second == IF player1.is_starter /\ ~player2.is_starter THEN player1 ELSE player2
        update1 == [first EXCEPT !.is_starter = TRUE]
        error1 == LimitsRaiseOnUpdate(players_on_team, first, update1)
        rows1 == (players_on_team \ {first}) \cup {RowAfterUpdate(update1)}
        update2 == [second EXCEPT !.is_starter = FALSE]
        error2 == LimitsRaiseOnUpdate(rows1, second, update2)
        rows2 == (rows1 \ {second}) \cup {RowAfterUpdate(update2)}
        \* the revert of the first update, its own error ignored
        revert == [RowAfterUpdate(update1) EXCEPT !.is_starter = FALSE]
        reverted == IF LimitsRaiseOnUpdate(rows1, RowAfterUpdate(update1), revert)
                    THEN rows1
                    ELSE (rows1 \ {RowAfterUpdate(update1)}) \cup {RowAfterUpdate(revert)}
        unchanged == [teams |-> teams1, rows |-> players_on_team]
    IN  IF player1Id = 0 \/ player2Id = 0
        THEN [unchanged EXCEPT !.teams = user_teams] @@ [response |-> Respond(400, "swap")]
        ELSE IF found1 = {} \/ found2 = {}
        THEN unchanged @@ [response |-> Respond(404, "swap")]
        ELSE IF player1.is_starter = player2.is_starter
        THEN unchanged @@ [response |-> Respond(400, "swap")]
        ELSE IF rpcWorks
        THEN IF swapResult.success
             THEN [teams |-> teams1, rows |-> swapResult.rows,
                   response |-> Respond(200, "swap")]
             ELSE unchanged @@ [response |-> Respond(400, "swap")]
        ELSE IF error1
        THEN unchanged @@ [response |-> Respond(500, "swap")]
        ELSE IF error2
        THEN [teams |-> teams1, rows |-> reverted, response |-> Respond(500, "swap")]
        ELSE [teams |-> teams1, rows |-> rows2, response |-> Respond(200, "swap")]

SwapPlayers(userId, player1Id, player2Id, rpcWorks) ==
    LET result == SwapPlayersResult(userId, player1Id, player2Id, rpcWorks)
    IN  /\ user_teams' = result.teams
        /\ players_on_team' = result.rows
        /\ response' = result.response
        /\ rankCall' = NoRankCall /\ rankings' = Null
        /\ UNCHANGED <<tz, now, transactions, nextId, held, runs, cacheVars, calVars, stepVars>>

\* set-clause charging the whole new clause, whatever clause the player had
SetClauseResult_FullCharge(userId, playerId, releaseClause, clauseUpdateWorks) ==
    LET teams1 == getOrCreateUserTeam(user_teams, userId)
        ti == TeamIndex(teams1, userId)
        userTeam == teams1[ti]
        currentPlayers == getTeamPlayers(players_on_team, userTeam.id)
        found == {p \in currentPlayers : p.id = playerId}
        player == CHOOSE p \in found : TRUE
        currentBudget == userTeam.budget
        clauseDifference == releaseClause
        newBudget == currentBudget - clauseDifference
        clauseValue == IF releaseClause = 0 THEN Null ELSE Some(releaseClause)
        updated == [player EXCEPT !.release_clause = clauseValue]
        error == ~clauseUpdateWorks \/ LimitsRaiseOnUpdate(players_on_team, player, updated)
        unchanged == [teams |-> teams1, rows |-> players_on_team]
    IN  IF playerId = 0 \/ releaseClause < 0
        THEN [unchanged EXCEPT !.teams = user_teams] @@ [response |-> Respond(400, "clause")]
        ELSE IF found = {}
        THEN unchanged @@ [response |-> Respond(404, "clause")]
        ELSE IF clauseDifference > 0 /\ currentBudget < clauseDifference
        THEN unchanged @@ [response |-> Respond(400, "clause")]
        ELSE IF error
        THEN unchanged @@ [response |-> Respond(500, "clause")]
        ELSE [teams    |-> [teams1 EXCEPT ![ti].budget = newBudget],
              rows     |-> (players_on_team \ {player}) \cup {RowAfterUpdate(updated)},
              response |-> Respond(200, "clause")]

\* POST /api/fantasy/set-clause: the store after the request and the
\* response; clauseUpdateWorks tells whether the store accepts the update of
\* release_clause or answers it with an error
SetClauseResult(userId, playerId, releaseClause, clauseUpdateWorks) ==
    LET teams1 == getOrCreateUserTeam(user_teams, userId)
        ti == TeamIndex(teams1, userId)
        userTeam == teams1[ti]
        currentPlayers == getTeamPlayers(players_on_team, userTeam.id)
        found == {p \in currentPlayers : p.id = playerId}
        player == CHOOSE p \in found : TRUE
        currentBudget == userTeam.budget
        currentClause == IF player.release_clause # Null THEN player.release_clause[1] ELSE 0
        clauseDifference == releaseClause - currentClause
        newBudget == currentBudget - clauseDifference
        \* the budget is written first
        teams2 == [teams1 EXCEPT ![ti].budget = newBudget]
        clauseValue == IF releaseClause = 0 THEN Null ELSE Some(releaseClause)
        updated == [player EXCEPT !.release_clause = clauseValue]
        error == ~clauseUpdateWorks \/ LimitsRaiseOnUpdate(players_on_team, player, updated)
        \* Rollback del presupuesto
        rolledBack == [teams2 EXCEPT ![ti].budget = currentBudget]
        unchanged == [teams |-> teams1, rows |-> players_on_team]
    IN  IF playerId = 0 \/ releaseClause < 0
        THEN [unchanged EXCEPT !.teams = user_teams] @@ [response |-> Respond(400, "clause")]
        ELSE IF found = {}
        THEN unchanged @@ [response |-> Respond(404, "clause")]
        ELSE IF clauseDifference > 0 /\ currentBudget < clauseDifference
        THEN unchanged @@ [response |-> Respond(400, "clause")]
        ELSE IF error
        THEN [teams |-> rolledBack, rows |-> players_on_team,
              response |-> Respond(500, "clause")]
        ELSE [teams    |-> teams2,
              rows     |-> (players_on_team \ {player}) \cup {RowAfterUpdate(updated)},
              response |-> Respond(200, "clause")]

SetClause(userId, playerId, releaseClause, clauseUpdateWorks) ==
    LET result == SetClauseResult(userId, playerId, releaseClause, clauseUpdateWorks)
    IN  /\ user_teams' = result.teams
        /\ players_on_team' = result.rows
        /\ response' = result.response
        /\ rankCall' = NoRankCall /\ rankings' = Null
        /\ UNCHANGED <<tz, now, transactions, nextId, held, runs, cacheVars, calVars, stepVars>>

\* time passes
Tick ==
    /\ now < MaxTime
    /\ now' = now + 1
    /\ rankCall' = NoRankCall /\ rankings' = Null
    /\ UNCHANGED <<tz, storeVars, runs, cacheVars, calVars, stepVars>>

\* .order('purchased_at').order('created_at'): the rows of players_on_team as
\* the query of getPlayerOwnershipPeriods returns them (equal dates: by id)
RECURSIVE OrderedRows(_)
OrderedRows(rows) ==
    IF rows = {} THEN <<>>
    ELSE LET Key(r) == <<IF r.purchased_at = Null THEN -1 ELSE r.purchased_at[1],
                         r.created_at, r.id>>
             Leq(a, b) == \/ Key(a)[1] < Key(b)[1]
                          \/ Key(a)[1] = Key(b)[1] /\ Key(a)[2] < Key(b)[2]
                          \/ Key(a)[1] = Key(b)[1] /\ Key(a)[2] = Key(b)[2]
                             /\ Key(a)[3] <= Key(b)[3]
             first == CHOOSE r \in rows : \A q \in rows : Leq(r, q)
         IN  <<first>> \o OrderedRows(rows \ {first})

\* calculateRankings on the store as it is, every fetch answered
CalculateRankings ==
    LET teams == user_teams
        playersOnTeam == OrderedRows(players_on_team)
        periods == IF teams = <<>> THEN <<>>
                   ELSE getPlayerOwnershipPeriods(teams, playersOnTeam, transactions)
        playerGameLogsMap == AllGameLogs(UniquePlayerIds(periods, <<>>), now)
    IN  /\ rankings = Null
        /\ rankCall' = [teams             |-> teams,
                        playersOnTeam     |-> playersOnTeam,
                        transactions      |-> transactions,
                        periods           |-> periods,
                        playerGameLogsMap |-> playerGameLogsMap]
        /\ rankings' = Some(calculateRankings(teams, periods, playerGameLogsMap))
        /\ UNCHANGED <<tz, now, storeVars, runs, cacheVars, calVars, stepVars>>

Init ==
    /\ tz \in TZOffsets
    /\ now = 0
    /\ StoreIdle /\ RankIdle /\ RunsIdle /\ CacheIdle /\ CalIdle /\ StepsIdle

Next ==
    \/ \E userId \in Users, playerId \in Players, price \in Prices :
          nextId <= MaxRows /\ AddInitialPlayer(userId, playerId, price)
    \/ \E userId \in Users, price \in Prices,
          playerOnTeamId \in {r.id : r \in players_on_team} \cup {nextId} :
          Len(transactions) < MaxTransactions /\ BuyPlayer(userId, playerOnTeamId, price)
    \/ Tick
    \/ CalculateRankings

Spec == Init /\ [][Next]_vars

---------------------------------------------------------------------------
(* Lineups: both users have a team whose rows are initial picks taken at   *)
(* instant 0, so many starters and so many bench players (a lineup that    *)
(* add-initial-player and move-player build), and go on adding, buying,    *)
(* moving and swapping.                                                    *)

\* the market closes after MaxLineupTransactions sales and the teams take
\* MaxLineupAdds more initial players between them
MaxLineupTransactions == 1
MaxLineupAdds == 1

\* the price of every pick and purchase of these teams
LineupPrices == {50000}

\* <<starters, bench>> of the team of user 1 and of the team of user 2
LineupShapes == {<< <<1, 4>>, <<0, 1>> >>,
                 << <<5, 0>>, <<1, 0>> >>,
                 << <<4, 4>>, <<5, 4>> >>,
                 << <<0, 0>>, <<5, 3>> >>}

\* the rows of a team of shape[1] starters and shape[2] bench players: the
\* ids (and the players) 1..5 of the team are its starters, 6..9 its bench
LineupRows(userId, shape, price) ==
    {InitialRow(MaxTeamPlayers * (userId - 1) + k, TeamIdOf(userId),
                MaxTeamPlayers * (userId - 1) + k, k <= MaxStarters, price, 0) :
        k \in 1..shape[1] \cup (MaxStarters + 1)..(MaxStarters + shape[2])}

FirstLineupId == Cardinality(Users) * MaxTeamPlayers + 1

InitLineups ==
    /\ tz = 0
    /\ now = 0
    /\ \E shapes \in LineupShapes, price \in LineupPrices :
          /\ user_teams = [userId \in 1..Cardinality(Users) |->
                              [id        |-> TeamIdOf(userId),
                               user_id   |-> userId,
                               team_name |-> TeamNameOf(userId),
                               budget    |-> InitialBudget - price *
                                   (shapes[userId][1] + shapes[userId][2])]]
          /\ players_on_team = UNION {LineupRows(userId, shapes[userId], price) :
                                         userId \in Users}
    /\ transactions = <<>>
    /\ nextId = FirstLineupId
    /\ held = {[teamId |-> r.team_id, playerId |-> r.player_id, from |-> 0, to |-> Null] :
                  r \in players_on_team}
    /\ response = NoResponse
    /\ RankIdle /\ RunsIdle /\ CacheIdle /\ CalIdle /\ StepsIdle

\* the rows a request names: the first starter and the first bench player
\* each team had at the start, and a row that does not exist
LineupRequestIds ==
    {MaxTeamPlayers * (userId - 1) + k : userId \in Users, k \in {1, MaxStarters + 1}}
        \cup {nextId}

NextLineups ==
    \/ \E userId \in Users, price \in LineupPrices :
          /\ nextId < FirstLineupId + MaxLineupAdds
          /\ AddInitialPlayer(userId, nextId, price)
    \/ \E userId \in Users, price \in LineupPrices, playerOnTeamId \in LineupRequestIds :
          /\ Len(transactions) < MaxLineupTransactions
          /\ BuyPlayer(userId, playerOnTeamId, price)
    \/ \E userId \in Users, playerId \in LineupRequestIds, isStarter \in BOOLEAN :
          MovePlayer(userId, playerId, isStarter)
    \/ \E userId \in Users, player1Id, player2Id \in LineupRequestIds, rpcWorks \in BOOLEAN :
          SwapPlayers(userId, player1Id, player2Id, rpcWorks)

SpecLineups == InitLineups /\ [][NextLineups]_vars

---------------------------------------------------------------------------
(* The market over days: each user has a team with one initial pick taken  *)
(* at instant 0; the users buy from each other at the prices their         *)
(* requests carry, set clauses, move and swap, while days pass.            *)

\* the market closes after MaxMarketTransactions sales
MaxMarketTransactions == 2

\* the days the clock is looked at: the day of the first purchases, 7 days
\* later and 8 days later
MarketDays == {0, CooldownDays, CooldownDays + 1}

\* the price of the initial picks, and the prices and clauses of requests
PickPrice == 400000
MarketPrices == {-100000, 0, 100000, PickPrice}
MarketClauses == {0, 500000}

\* Date.now() moves on to a later day of MarketDays
DaysPass(day) ==
    /\ day * TicksPerDay > now
    /\ now' = day * TicksPerDay
    /\ rankCall' = NoRankCall /\ rankings' = Null
    /\ UNCHANGED <<tz, storeVars, runs, cacheVars, calVars, stepVars>>

\* canPlayerBeSold(player) at instant t
canPlayerBeSold(player, t) ==
    IF player.purchased_at = Null THEN TRUE
    ELSE IF player.can_be_sold THEN TRUE
    ELSE t - player.purchased_at[1] >= CooldownDays * TicksPerDay

InitMarket ==
    /\ tz = 0
    /\ now = 0
    /\ user_teams = [userId \in 1..Cardinality(Users) |->
                        [id        |-> TeamIdOf(userId),
                         user_id   |-> userId,
                         team_name |-> TeamNameOf(userId),
                         budget    |-> InitialBudget - PickPrice]]
    /\ players_on_team = {InitialRow(userId, TeamIdOf(userId), userId, TRUE, PickPrice, 0) :
                             userId \in Users}
    /\ transactions = <<>>
    /\ nextId = Cardinality(Users) + 1
    /\ held = {[teamId |-> r.team_id, playerId |-> r.player_id, from |-> 0, to |-> Null] :
                  r \in players_on_team}
    /\ response = NoResponse
    /\ RankIdle /\ RunsIdle /\ CacheIdle /\ CalIdle /\ StepsIdle

NextMarket ==
    \/ \E userId \in Users, price \in MarketPrices,
          playerOnTeamId \in {r.id : r \in players_on_team} :
          /\ Len(transactions) < MaxMarketTransactions
          /\ BuyPlayer(userId, playerOnTeamId, price)
    \/ \E userId \in Users, playerId \in {r.id : r \in players_on_team},
          releaseClause \in MarketClauses, clauseUpdateWorks \in BOOLEAN :
          SetClause(userId, playerId, releaseClause, clauseUpdateWorks)
    \/ \E userId \in Users, playerId \in {r.id : r \in players_on_team},
          isStarter \in BOOLEAN :
          MovePlayer(userId, playerId, isStarter)
    \/ \E userId \in Users, player1Id, player2Id \in {r.id : r \in players_on_team},
          rpcWorks \in BOOLEAN :
          SwapPlayers(userId, player1Id, player2Id, rpcWorks)
    \/ \E day \in MarketDays : DaysPass(day)

SpecMarket == InitMarket /\ [][NextMarket]_vars

---------------------------------------------------------------------------
(* Stores for the specifications of the ranking runs and of the cache: the *)
(* teams of InputTeamOrders were created in that order and have taken, at  *)
(* instant 0, the initial picks of a set of (user, player) pairs.          *)

InputTeamOrders == {<<1>>, <<1, 2>>, <<2, 1>>}

InputPicks(order) == SUBSET (Range(order) \X Players)

InputTeams(order, picks, price) ==
    [i \in DOMAIN order |->
        [id        |-> TeamIdOf(order[i]),
         user_id   |-> order[i],
         team_name |-> TeamNameOf(order[i]),
         budget    |-> InitialBudget
                         - price * Cardinality({pick \in picks : pick[1] = order[i]})]]

InputRows(picks, price) ==
    {InitialRow(Cardinality(Players) * (pick[1] - 1) + pick[2], TeamIdOf(pick[1]),
                pick[2], TRUE, price, 0) : pick \in picks}

InitStore ==
    \E order \in InputTeamOrders, price \in Prices :
        \E picks \in InputPicks(order) :
            /\ user_teams = InputTeams(order, picks, price)
            /\ players_on_team = InputRows(picks, price)
            /\ transactions = <<>>
            /\ nextId = Cardinality(Users) * Cardinality(Players) + 1
            /\ held = {[teamId |-> TeamIdOf(pick[1]), playerId |-> pick[2],
                        from |-> 0, to |-> Null] : pick \in picks}
            /\ response = NoResponse

---------------------------------------------------------------------------
(* Runs of calculateRankings, step by step: a run reads the store and      *)
(* issues the fetch of every player at once; the fetches answer one by     *)
(* one, in any order, each callback setting its entry of                   *)
(* playerGameLogsMap; when all have answered the run finishes.             *)

NumRuns == 2

\* what the provider does with one fetch that answers
FetchOutcomes == {"ok", "http_error", "malformed", "throws"}

IdleRun == [stage |-> "idle", teams |-> <<>>, periods |-> <<>>, playerIds |-> <<>>,
            pending |-> {}, stalled |-> {}, failed |-> {},
            playerGameLogsMap |-> <<>>, result |-> <<>>]

\* the fetched logs stored under the number of their arrival instead of
\* the player's id
MapSet_ByArrival(playerGameLogsMap, playerId, gameLogs) ==
    Append(playerGameLogsMap, [playerId |-> Len(playerGameLogsMap) + 1,
                               gameLogs |-> gameLogs])

\* Map.prototype.set on playerGameLogsMap
MapSet(playerGameLogsMap, playerId, gameLogs) ==
    LET i == FirstIndex(playerGameLogsMap, LAMBDA e : e.playerId = playerId)
        entry == [playerId |-> playerId, gameLogs |-> gameLogs]
    IN  IF i = 0 THEN Append(playerGameLogsMap, entry)
        ELSE [playerGameLogsMap EXCEPT ![i] = entry]

\* getPlayerAllGameLogs when the fetch answers at instant t: the games on
\* success, [] on a non-ok status, a body without resultSets or an exception
FetchGameLogs(playerId, t, outcome) ==
    IF outcome = "ok" THEN getPlayerAllGameLogs(playerId, t) ELSE <<>>

\* calculateRankings up to Promise.all: teams, periods and the fetches
\* issued, one per element of playerIds
StartRun(r) ==
    /\ runs[r].stage = "idle"
    /\ user_teams # <<>>
    /\ LET periods == getPlayerOwnershipPeriods(user_teams, OrderedRows(players_on_team),
                                                transactions)
           playerIds == UniquePlayerIds(periods, <<>>)
       IN  runs' = [runs EXCEPT ![r] =
                       [stage             |-> "fetching",
                        teams             |-> user_teams,
                        periods           |-> periods,
                        playerIds         |-> playerIds,
                        pending           |-> DOMAIN playerIds,
                        stalled           |-> {},
                        failed            |-> {},
                        playerGameLogsMap |-> <<>>,
                        result            |-> <<>>]]
    /\ UNCHANGED <<tz, now, storeVars, rankVars, cacheVars, calVars, stepVars>>

\* the i-th fetch answers: playerGameLogsMap.set(playerId, gameLogs)
FetchResolve(r, i, outcome) ==
    /\ runs[r].stage = "fetching"
    /\ i \in runs[r].pending
    /\ LET playerId == runs[r].playerIds[i]
       IN  runs' = [runs EXCEPT
                       ![r].pending = @ \ {i},
                       ![r].failed = IF outcome = "ok" THEN @ ELSE @ \cup {playerId},
                       ![r].playerGameLogsMap =
                           MapSet(@, playerId, FetchGameLogs(playerId, now, outcome))]
    /\ UNCHANGED <<tz, now, storeVars, rankVars, cacheVars, calVars, stepVars>>

\* the connection of the i-th fetch hangs: fetch() has no timeout and no
\* AbortController, so its promise never settles
FetchStall(r, i) ==
    /\ runs[r].stage = "fetching"
    /\ i \in runs[r].pending
    /\ runs' = [runs EXCEPT ![r].pending = @ \ {i}, ![r].stalled = @ \cup {i}]
    /\ UNCHANGED <<tz, now, storeVars, rankVars, cacheVars, calVars, stepVars>>

\* await Promise.all(...): every fetch issued has settled
FinishReady(r) ==
    runs[r].stage = "fetching" /\ runs[r].pending = {} /\ runs[r].stalled = {}

\* Promise.all rejects as soon as one callback fails: the outer catch
\* returns []
FinishRun_RejectOnFailure(r) ==
    /\ FinishReady(r)
    /\ runs' = [runs EXCEPT
                   ![r].stage = "done",
                   ![r].result = IF runs[r].failed # {} THEN <<>>
                                 ELSE calculateRankings(runs[r].teams, runs[r].periods,
                                                        runs[r].playerGameLogsMap)]
    /\ UNCHANGED <<tz, now, storeVars, rankVars, cacheVars, calVars, stepVars>>

\* Promise.all has resolved (every callback has run): the rest of
\* calculateRankings
FinishRun(r) ==
    /\ FinishReady(r)
    /\ runs' = [runs EXCEPT
                   ![r].stage = "done",
                   ![r].result = calculateRankings(runs[r].teams, runs[r].periods,
                                                   runs[r].playerGameLogsMap)]
    /\ UNCHANGED <<tz, now, storeVars, rankVars, cacheVars, calVars, stepVars>>

InitRuns ==
    /\ tz \in TZOffsets
    /\ now = MaxTime
    /\ InitStore /\ RankIdle /\ CacheIdle /\ CalIdle /\ StepsIdle
    /\ runs = [r \in 1..NumRuns |-> IdleRun]

NextRuns ==
    \/ \E r \in 1..NumRuns : StartRun(r)
    \/ \E r \in 1..NumRuns, i \in 1..Cardinality(Players), outcome \in FetchOutcomes :
          FetchResolve(r, i, outcome)
    \/ \E r \in 1..NumRuns, i \in 1..Cardinality(Players) : FetchStall(r, i)
    \/ \E r \in 1..NumRuns : FinishRun(r)

SpecRuns == InitRuns /\ [][NextRuns]_vars

\* a step in which run r returns: the steps of FinishRun(r)
Returns(r) == runs[r].stage = "fetching" /\ runs'[r].stage = "done"

\* Runs on the stores where every user holds every player.  A fetch the
\* provider answers does answer, and the event loop runs the continuation
\* of Promise.all once it is ready: weak fairness of FinishRun(r), written
\* with its enabling condition FinishReady(r) and its steps Returns(r).
\* Nothing makes a hung connection settle.
InitRunsLive ==
    /\ InitRuns
    /\ tz = 0
    /\ Cardinality(players_on_team) = Cardinality(Users) * Cardinality(Players)

SpecRunsLive ==
    /\ InitRunsLive /\ [][NextRuns]_vars
    /\ \A r \in 1..NumRuns :
         /\ WF_vars(\E i \in 1..Cardinality(Players), outcome \in FetchOutcomes :
                       FetchResolve(r, i, outcome))
         /\ ([]<>(~FinishReady(r)) \/ []<><<Returns(r)>>_vars)

---------------------------------------------------------------------------
(* The ranking cache.  maxAgeMinutes is counted in ticks of the clock.     *)

MaxAges == {0, 1}

\* the highest week number a game of the model can have
MaxWeekKey == (MaxDay \div DaysPerWeek) + 2

\* Object.fromEntries(ranking.weeklyBreakdown): the keys become strings
ObjectFromEntries(weeklyBreakdown) ==
    [k \in {ToString(w) : w \in DOMAIN weeklyBreakdown} |->
        weeklyBreakdown[CHOOSE w \in DOMAIN weeklyBreakdown : ToString(w) = k]]

\* parseInt(week)
ParseInt(k) == CHOOSE n \in 0..MaxWeekKey : ToString(n) = k

\* new Map(Object.entries(row.weekly_breakdown).map(...))
MapFromObject(object) ==
    [w \in {ParseInt(k) : k \in DOMAIN object} |-> object[ToString(w)]]

\* rankings.map(ranking => ({...})): the row saved for one ranking
ToCacheRow(ranking, t) ==
    [user_id          |-> ranking.userId,
     team_id          |-> ranking.teamId,
     team_name        |-> ranking.teamName,
     total_points     |-> ranking.totalPoints,
     weekly_breakdown |-> ObjectFromEntries(ranking.weeklyBreakdown),
     calculated_at    |-> t]

\* data.map(row => ({...})): the TeamRanking read from one row
FromCacheRow(row) ==
    [userId          |-> row.user_id,
     teamId          |-> row.team_id,
     teamName        |-> row.team_name,
     totalPoints     |-> row.total_points,
     weeklyBreakdown |-> MapFromObject(row.weekly_breakdown)]

\* upsert that keeps the row a key already has (ignoreDuplicates)
Upsert_IgnoreDuplicates(cache, rows) ==
    cache \cup {row \in rows : ~\E old \in cache :
                                   row.user_id = old.user_id /\ row.team_id = old.team_id}

\* upsert(rankingsData, {onConflict: 'user_id,team_id'})
Upsert(cache, rows) ==
    {old \in cache : ~\E row \in rows :
                         row.user_id = old.user_id /\ row.team_id = old.team_id}
        \cup rows

\* the history after a write of rankingList at instant t: for every key the
\* TeamRanking last written, when, and whether it replaced an earlier one
Written(history, rankingList, t) ==
    LET keys == {<<rankingList[i].userId, rankingList[i].teamId>> : i \in DOMAIN rankingList}
    IN  {w \in history : <<w.userId, w.teamId>> \notin keys}
          \cup {[userId   |-> rankingList[i].userId,
                 teamId   |-> rankingList[i].teamId,
                 ranking  |-> rankingList[i],
                 at       |-> t,
                 replaced |-> \E w \in history : /\ w.userId = rankingList[i].userId
                                                  /\ w.teamId = rankingList[i].teamId]
                 : i \in DOMAIN rankingList}

\* saveRankingsToCache(rankings) at instant t: the table after the call
saveRankingsToCache(cache, rankingList, t) ==
    Upsert(cache, {ToCacheRow(rankingList[i], t) : i \in DOMAIN rankingList})

\* the query of getRankingsFromCache with no age limit
CacheQuery_NoExpiry(cache, t, maxAgeMinutes) == cache

\* .gte('calculated_at', minCalculatedAt): the rows the query selects
CacheQuery(cache, t, maxAgeMinutes) ==
    LET minCalculatedAt == t - maxAgeMinutes
    IN  {row \in cache : row.calculated_at >= minCalculatedAt}

\* .order('total_points', {ascending: false}): the orders the store may
\* return the rows in (rows with equal total_points come in any order)
OrdersByPoints(rows) ==
    {data \in [1..Cardinality(rows) -> rows] :
        /\ \A i, j \in DOMAIN data : i # j => data[i] # data[j]
        /\ \A i \in 1..(Len(data) - 1) : data[i].total_points >= data[i + 1].total_points}

\* getRankingsFromCache, from the rows the query returned: Null when there
\* are none
getRankingsFromCache(data) ==
    IF data = <<>> THEN Null
    ELSE Some([i \in DOMAIN data |-> FromCacheRow(data[i])])

\* calculateRankings on the store at instant t, every fetch answered
RankingsAt(t) ==
    LET periods == IF user_teams = <<>> THEN <<>>
                   ELSE getPlayerOwnershipPeriods(user_teams, OrderedRows(players_on_team),
                                                  transactions)
    IN  calculateRankings(user_teams, periods,
                          AllGameLogs(UniquePlayerIds(periods, <<>>), t))

\* getRankingsWithCache(maxAgeMinutes); rankingList is what calculateRankings
\* gives at this instant, used on a miss only
GetRankingsWithCache(maxAgeMinutes) ==
    \E rankingList \in {RankingsAt(now)} :
    \E data \in OrdersByPoints(CacheQuery(team_rankings_cache, now, maxAgeMinutes)) :
    \E cachedRankings \in {getRankingsFromCache(data)} :
        LET call == [called |-> TRUE, at |-> now, maxAgeMinutes |-> maxAgeMinutes,
                     before |-> team_rankings_cache]
        IN  /\ IF cachedRankings # Null
               THEN /\ cacheCall' = call @@ [calculated |-> FALSE,
                                             result |-> cachedRankings[1]]
                    /\ UNCHANGED <<team_rankings_cache, lastWrite>>
               ELSE /\ cacheCall' = call @@ [calculated |-> TRUE, result |-> rankingList]
                    /\ team_rankings_cache' =
                           saveRankingsToCache(team_rankings_cache, rankingList, now)
                    /\ lastWrite' = Written(lastWrite, rankingList, now)
            /\ UNCHANGED <<tz, now, storeVars, rankVars, runs, calVars, stepVars>>

\* POST /api/fantasy/update-rankings: calculateAndCacheRankings
UpdateRankings ==
    \E rankingList \in {RankingsAt(now)} :
        /\ team_rankings_cache' = saveRankingsToCache(team_rankings_cache, rankingList, now)
        /\ lastWrite' = Written(lastWrite, rankingList, now)
        /\ UNCHANGED <<tz, now, storeVars, rankVars, runs, cacheCall, calVars, stepVars>>

TickCache ==
    /\ now < MaxTime
    /\ now' = now + 1
    /\ UNCHANGED <<tz, storeVars, rankVars, runs, cacheVars, calVars, stepVars>>

InitCache ==
    /\ tz \in TZOffsets
    /\ now = 0
    /\ InitStore /\ RankIdle /\ RunsIdle /\ CacheIdle /\ CalIdle /\ StepsIdle

NextCache ==
    \/ \E maxAgeMinutes \in MaxAges : GetRankingsWithCache(maxAgeMinutes)
    \/ UpdateRankings
    \/ TickCache

SpecCache == InitCache /\ [][NextCache]_vars

---------------------------------------------------------------------------
(* The calendar functions, applied to inputs drawn from bounded sets *)

MaxWeek == 3

InitWeek ==
    /\ tz \in TZOffsets
    /\ now = 0
    /\ StoreIdle /\ RankIdle /\ RunsIdle /\ CacheIdle /\ StepsIdle
    /\ \E date \in Instants, seasonStartDate \in Instants, week \in 1..MaxWeek :
           calIn = [NoCalIn EXCEPT !.fn = "week", !.date = date,
                                   !.seasonStartDate = seasonStartDate, !.week = week]
    /\ calOut = NoCalOut

CallGetWeekNumber ==
    /\ calIn.fn = "week"
    /\ calOut.weekNumber = 0
    /\ calOut' = [calOut EXCEPT
                     !.weekNumber = getWeekNumber(calIn.date, calIn.seasonStartDate)]
    /\ UNCHANGED <<tz, now, storeVars, rankVars, runs, cacheVars, calIn, stepVars>>

\* getWeekDates of the week given, or of the week getWeekNumber returned
CallGetWeekDates ==
    /\ calIn.fn = "week"
    /\ calOut.weekDates = Null
    /\ \E w \in {calIn.week} \cup ({calOut.weekNumber} \ {0}) :
           calOut' = [calOut EXCEPT
                        !.rangeWeek = w,
                        !.weekDates = Some(getWeekDates(w, calIn.seasonStartDate))]
    /\ UNCHANGED <<tz, now, storeVars, rankVars, runs, cacheVars, calIn, stepVars>>

NextWeek == CallGetWeekNumber \/ CallGetWeekDates

SpecWeek == InitWeek /\ [][NextWeek]_vars

InitWeekly ==
    /\ tz \in TZOffsets
    /\ now = 0
    /\ StoreIdle /\ RankIdle /\ RunsIdle /\ CacheIdle /\ StepsIdle
    /\ \E playerId \in Players, purchaseDate \in Instants,
          saleDate \in {Null} \cup {Some(t) : t \in Instants} :
           calIn = [NoCalIn EXCEPT !.fn = "weekly", !.playerId = playerId,
                                   !.seasonStartDate = UTCMidnight(SeasonStartDay),
                                   !.purchaseDate = purchaseDate, !.saleDate = saleDate]
    /\ calOut = NoCalOut

CallCalculateWeeklyPoints ==
    /\ calIn.fn = "weekly"
    /\ calOut.weekly = Null
    /\ calOut' = [calOut EXCEPT !.weekly = Some(calculateWeeklyPoints(
                     ProviderLog(calIn.playerId), calIn.purchaseDate, calIn.saleDate,
                     calIn.seasonStartDate))]
    /\ UNCHANGED <<tz, now, storeVars, rankVars, runs, cacheVars, calIn, stepVars>>

NextWeekly == CallCalculateWeeklyPoints

SpecWeekly == InitWeekly /\ [][NextWeekly]_vars

---------------------------------------------------------------------------
(* getPlayerOwnershipPeriods step by step, on tables drawn from bounded    *)
(* sets: both users have a team; the transactions are sales of player 1    *)
(* between the two teams, in created_at order (instants less than a second *)
(* apart are the same instant); players_on_team has at most one row of     *)
(* player 1 and at most one of player 2.                                   *)

MaxPeriodTransactions == 4

\* the instants of the transactions
PeriodInstants == 1..3

TradedPlayer == 1
OtherPlayer == 2

\* the transactions tables: who buys in each sale, and when
InputTransactions ==
    UNION {{[i \in 1..n |->
               [buyer_team_id       |-> TeamIdOf(buyers[i]),
                seller_team_id      |-> TeamIdOf(CHOOSE u \in Users : u # buyers[i]),
                player_id           |-> TradedPlayer,
                transaction_price   |-> PickPrice,
                release_clause_paid |-> Null,
                created_at          |-> times[i]]] :
              buyers \in [1..n -> Users],
              times \in {ts \in [1..n -> PeriodInstants] :
                            \A i \in 1..(n - 1) : ts[i] <= ts[i + 1]}} :
           n \in 0..MaxPeriodTransactions}

\* the players_on_team tables for a given transactions table: the row of
\* the traded player is missing, or is on either team with purchased_at at
\* the pick (instant 0), at the last sale, or NULL; the other player is
\* missing or an initial pick of user 1
InputRosters(txs) ==
    LET dates == {Null, Some(0)} \cup
                 (IF txs = <<>> THEN {} ELSE {Some(txs[Len(txs)].created_at)})
        traded == {{}} \cup
                  {{[InitialRow(1, TeamIdOf(u), TradedPlayer, TRUE, PickPrice, 0)
                        EXCEPT !.purchased_at = d]} : u \in Users, d \in dates}
        other == {{}, {InitialRow(2, TeamIdOf(1), OtherPlayer, TRUE, PickPrice, 0)}}
    IN  {a \cup b : a \in traded, b \in other}

\* the three queries: user_teams, players_on_team and transactions as the
\* run holds them; nothing processed yet
ReadTables ==
    /\ reconstruction = Null
    /\ reconstruction' =
           Some([stage            |-> "transactions",
                 teams            |-> user_teams,
                 playersOnTeam    |-> OrderedRows(players_on_team),
                 transactions     |-> transactions,
                 processed        |-> 0,
                 playerHistoryMap |-> [map |-> <<>>, keys |-> <<>>],
                 periods          |-> <<>>])
    /\ UNCHANGED <<tz, now, storeVars, rankVars, runs, cacheVars, calVars, requests>>

\* Paso 1, one iteration of transactions.forEach
ProcessTransaction ==
    /\ reconstruction # Null
    /\ reconstruction[1].stage = "transactions"
    /\ reconstruction[1].processed < Len(reconstruction[1].transactions)
    /\ \E run \in {reconstruction[1]} :
          reconstruction' =
              Some([run EXCEPT
                       !.processed = @ + 1,
                       !.playerHistoryMap =
                           PlayerHistoryMap(run.teams,
                                            <<run.transactions[run.processed + 1]>>,
                                            run.playerHistoryMap)])
    /\ UNCHANGED <<tz, now, storeVars, rankVars, runs, cacheVars, calVars, requests>>

\* Paso 2, the loop over playersOnTeam
ProcessRoster ==
    /\ reconstruction # Null
    /\ reconstruction[1].stage = "transactions"
    /\ reconstruction[1].processed = Len(reconstruction[1].transactions)
    /\ \E run \in {reconstruction[1]} :
          reconstruction' =
              Some([run EXCEPT
                       !.stage = "roster",
                       !.periods = RosterPeriods(run.teams, run.playersOnTeam,
                                                 run.playerHistoryMap.map)])
    /\ UNCHANGED <<tz, now, storeVars, rankVars, runs, cacheVars, calVars, requests>>

\* Paso 3, playerHistoryMap.forEach, and the return
AddHistorical ==
    /\ reconstruction # Null
    /\ reconstruction[1].stage = "roster"
    /\ \E run \in {reconstruction[1]} :
          reconstruction' =
              Some([run EXCEPT
                       !.stage = "done",
                       !.periods = HistoricalPeriods(run.periods,
                                                     run.playerHistoryMap.keys,
                                                     run.playerHistoryMap.map)])
    /\ UNCHANGED <<tz, now, storeVars, rankVars, runs, cacheVars, calVars, requests>>

InitPeriods ==
    /\ tz = 0
    /\ now = MaxTime
    /\ user_teams = [userId \in 1..Cardinality(Users) |->
                        [id        |-> TeamIdOf(userId),
                         user_id   |-> userId,
                         team_name |-> TeamNameOf(userId),
                         budget    |-> InitialBudget]]
    /\ transactions \in InputTransactions
    /\ players_on_team \in InputRosters(transactions)
    /\ nextId = Cardinality(Players) + 1
    /\ held = {}
    /\ response = NoResponse
    /\ RankIdle /\ RunsIdle /\ CacheIdle /\ CalIdle /\ StepsIdle

NextPeriods ==
    \/ ReadTables
    \/ ProcessTransaction
    \/ ProcessRoster
    \/ AddHistorical

SpecPeriods == InitPeriods /\ [][NextPeriods]_vars

---------------------------------------------------------------------------
(* buy-player query by query.  Every await of the handler is one step on   *)
(* the store, and the steps of requests that are served at the same time   *)
(* interleave; what a request has read stays in its record.  Both teams    *)
(* exist and hold their first pick, as in InitMarket.                      *)

MaxBuyRequests == 2
BuyPrices == {100000, 200000}

\* the tables a query works on
World == [teams |-> user_teams, rows |-> players_on_team, txs |-> transactions]

\* a request that has just arrived
NewBuyRequest(userId, playerOnTeamId, price) ==
    [userId         |-> userId,
     playerOnTeamId |-> playerOnTeamId,
     price          |-> price,
     pc             |-> "budget",
     budget         |-> 0,
     currentPlayers |-> 0,
     playerToBuy    |-> Null,
     sellerUserId   |-> Null,
     sellerTeam     |-> Null,
     status         |-> 0]

\* the request answers
Answered(request, status) == [request EXCEPT !.pc = "done", !.status = status]

\* the next query of a request on the tables: the tables and the request
\* after it
BuyStep(world, request) ==
    LET userId == request.userId
        price == request.price
        bi == TeamIndex(world.teams, userId)
        buyerTeam == world.teams[bi]
        same == [world |-> world, request |-> request]
    IN  CASE request.pc = "budget" ->
               \* getOrCreateUserTeam, getTeamBudget
               IF request.playerOnTeamId = 0 \/ price = 0
               THEN [same EXCEPT !.request = Answered(request, 400)]
               ELSE IF buyerTeam.budget < price
               THEN [same EXCEPT !.request = Answered(request, 400)]
               ELSE [same EXCEPT !.request.budget = buyerTeam.budget,
                                 !.request.pc = "players"]
          [] request.pc = "players" ->
               \* getTeamPlayers
               LET currentPlayers == getTeamPlayers(world.rows, buyerTeam.id)
               IN  IF Cardinality(currentPlayers) >= MaxTeamPlayers
                   THEN [same EXCEPT !.request = Answered(request, 400)]
                   ELSE [same EXCEPT !.request.currentPlayers = Cardinality(currentPlayers),
                                     !.request.pc = "player"]
          [] request.pc = "player" ->
               \* the row to buy, with its team's user
               LET found == {r \in world.rows : r.id = request.playerOnTeamId}
                   playerToBuy == CHOOSE r \in found : TRUE
                   sellerUserId == UserOfTeam(world.teams, playerToBuy.team_id)
               IN  IF found = {}
                   THEN [same EXCEPT !.request = Answered(request, 404)]
                   ELSE IF ~playerToBuy.can_be_sold
                   THEN [same EXCEPT !.request = Answered(request, 400)]
                   ELSE IF sellerUserId = Some(userId)
                   THEN [same EXCEPT !.request = Answered(request, 400)]
                   ELSE IF sellerUserId = Null
                   THEN [same EXCEPT !.request = Answered(request, 500)]
                   ELSE [same EXCEPT !.request.playerToBuy = Some(playerToBuy),
                                     !.request.sellerUserId = sellerUserId,
                                     !.request.pc = "debit"]
          [] request.pc = "debit" ->
               \* 1. update({ budget: budget - price })
               [same EXCEPT !.world.teams[bi].budget = request.budget - price,
                            !.request.pc = "seller"]
          [] request.pc = "seller" ->
               \* 2. select('budget, user_id') of the seller's team
               LET si == FirstIndex(world.teams,
                                    LAMBDA t : t.id = request.playerToBuy[1].team_id)
               IN  IF si = 0 THEN [same EXCEPT !.request.pc = "move"]
                   ELSE [same EXCEPT !.request.sellerTeam = Some(world.teams[si]),
                                     !.request.pc = "credit"]
          [] request.pc = "credit" ->
               \* update({ budget: sellerTeam.budget + price })
               LET si == FirstIndex(world.teams,
                                    LAMBDA t : t.id = request.playerToBuy[1].team_id)
               IN  [same EXCEPT !.world.teams[si].budget =
                                    request.sellerTeam[1].budget + price,
                                !.request.pc = "move"]
          [] request.pc = "move" ->
               \* 3. the row with this id moves to the buyer's team, through the
               \* BEFORE UPDATE triggers
               LET old == CHOOSE r \in world.rows : r.id = request.playerOnTeamId
                   updated == [old EXCEPT
                                  !.team_id = buyerTeam.id,
                                  !.purchase_price = price,
                                  !.release_clause = Null,
                                  !.purchased_from_user_id = request.sellerUserId,
                                  !.purchased_at = Some(now),
                                  !.can_be_sold = FALSE,
                                  !.is_starter = request.currentPlayers < MaxStarters]
                   new == set_purchase_cooldown(check_cooldown_expired(updated))
                   moveError == LimitsRaiseOnUpdate(world.rows, old, updated)
                                 \/ UniqueViolated(world.rows, new)
               IN  IF moveError
                   THEN [same EXCEPT !.request = Answered(request, 500)]
                   ELSE [same EXCEPT !.world.rows = (world.rows \ {old}) \cup {new},
                                     !.request.pc = "insert"]
          [] request.pc = "insert" ->
               \* 4. the transaction
               [same EXCEPT
                   !.world.txs = Append(world.txs,
                       [buyer_team_id       |-> buyerTeam.id,
                        seller_team_id      |-> request.playerToBuy[1].team_id,
                        player_id           |-> request.playerToBuy[1].player_id,
                        transaction_price   |-> price,
                        release_clause_paid |-> request.playerToBuy[1].release_clause,
                        created_at          |-> now]),
                   !.request = Answered(request, 200)]
          [] OTHER -> same

\* a request arrives
PostBuy(userId, playerOnTeamId, price) ==
    /\ Len(requests) < MaxBuyRequests
    /\ requests' = Append(requests, NewBuyRequest(userId, playerOnTeamId, price))
    /\ UNCHANGED <<tz, now, storeVars, rankVars, runs, cacheVars, calVars, reconstruction>>

\* the store answers the query request i is waiting for
BuyQuery(i) ==
    /\ i \in DOMAIN requests
    /\ requests[i].pc # "done"
    /\ \E out \in {BuyStep(World, requests[i])} :
          /\ user_teams' = out.world.teams
          /\ players_on_team' = out.world.rows
          /\ transactions' = out.world.txs
          /\ requests' = [requests EXCEPT ![i] = out.request]
          /\ response' = IF out.request.pc = "done"
                         THEN Respond(out.request.status, "buy") ELSE response
    /\ UNCHANGED <<tz, now, nextId, held, rankVars, runs, cacheVars, calVars, reconstruction>>

\* the tables the requests find
BuysStart ==
    [teams |-> [userId \in 1..Cardinality(Users) |->
                   [id        |-> TeamIdOf(userId),
                    user_id   |-> userId,
                    team_name |-> TeamNameOf(userId),
                    budget    |-> InitialBudget - PickPrice]],
     rows  |-> {InitialRow(userId, TeamIdOf(userId), userId, TRUE, PickPrice, 0) :
                   userId \in Users},
     txs   |-> <<>>]

InitBuys ==
    /\ tz = 0
    /\ now = 0
    /\ user_teams = BuysStart.teams
    /\ players_on_team = BuysStart.rows
    /\ transactions = BuysStart.txs
    /\ nextId = Cardinality(Users) + 1
    /\ held = {}
    /\ response = NoResponse
    /\ RankIdle /\ RunsIdle /\ CacheIdle /\ CalIdle
    /\ reconstruction = Null
    /\ requests = <<>>

NextBuys ==
    \/ \E userId \in Users, playerOnTeamId \in {r.id : r \in players_on_team},
          price \in BuyPrices :
          PostBuy(userId, playerOnTeamId, price)
    \/ \E i \in 1..MaxBuyRequests : BuyQuery(i)

SpecBuys == InitBuys /\ [][NextBuys]_vars

---------------------------------------------------------------------------
(* Calendar days, for stating the claims: the local calendar day a date    *)
(* value names.                                                            *)

DayOfDate(date) ==
    IF date.kind = "str" THEN date.v
    ELSE IF date.kind = "invalid" THEN EpochDay
    ELSE (date.v + tz) \div TicksPerDay

DayOfInstant(t) == DayOfDate(DateObj(t))

\* the games of a log that satisfy a test, and the sum of their points
PointsOfGames(gameLogs, Test(_)) ==
    SumSeq([i \in 1..Len(SelectSeq(gameLogs, Test)) |-> SelectSeq(gameLogs, Test)[i].points])

\* the ranking call of this state has returned
Ranked == rankings # Null /\ rankCall # NoRankCall

\* the periods of rankCall, as a set of positions
PeriodIndexes == DOMAIN rankCall.periods

(* C1: the ownership periods getPlayerOwnershipPeriods returns for one     *)
(* player never overlap across different users: of two periods of the same *)
(* player and different users, one is sold no later than the other is      *)
(* bought (an open period has no end).                                     *)
C1_Before(p, q) == p.saleDate # Null /\ p.saleDate[1] <= q.purchaseDate

C1_PeriodsDisjoint ==
    Ranked =>
        \A i, j \in PeriodIndexes :
            LET p == rankCall.periods[i]
                q == rankCall.periods[j]
            IN  (p.playerId = q.playerId /\ p.userId # q.userId)
                    => (C1_Before(p, q) \/ C1_Before(q, p))

\* the game logs of the call with every player's games but one removed
OnlyPlayer(playerGameLogsMap, playerId) ==
    [i \in DOMAIN playerGameLogsMap |->
        IF playerGameLogsMap[i].playerId = playerId THEN playerGameLogsMap[i]
        ELSE [playerGameLogsMap[i] EXCEPT !.gameLogs = <<>>]]

\* the points all TeamRankings of the call hold for one player
CreditedFor(playerId) ==
    LET list == calculateRankings(rankCall.teams, rankCall.periods,
                                  OnlyPlayer(rankCall.playerGameLogsMap, playerId))
    IN  SumSeq([i \in DOMAIN list |-> list[i].totalPoints])

\* the game's day lies in one of the player's ownership periods
InUnion(playerId, game) ==
    \E i \in PeriodIndexes :
        LET p == rankCall.periods[i]
        IN  /\ p.playerId = playerId
            /\ DayOfDate(game.date) >= DayOfInstant(p.purchaseDate)
            /\ (p.saleDate = Null \/ DayOfDate(game.date) < DayOfInstant(p.saleDate[1]))

(* C2: in one calculateRankings run, the points credited for a player over *)
(* all TeamRankings are the points of that player's games whose day lies   *)
(* in the union of the player's ownership periods, each game once.         *)
C2_PlayerPointsOnce ==
    Ranked =>
        \A playerId \in Players :
            CreditedFor(playerId)
                = PointsOfGames(GameLogsOf(rankCall.playerGameLogsMap, playerId),
                                LAMBDA game : InUnion(playerId, game))

\* the player was on the team's roster on the game's day: acquisition day
\* inclusive, sale day exclusive
OnRoster(teamId, playerId, game) ==
    \E h \in held :
        /\ h.teamId = teamId /\ h.playerId = playerId
        /\ DayOfDate(game.date) >= DayOfInstant(h.from)
        /\ (h.to = Null \/ DayOfDate(game.date) < DayOfInstant(h.to[1]))

\* the points of the games played so far by players on the team's roster
EarnedOnRoster(teamId) ==
    LET Earned(playerId) ==
            PointsOfGames(getPlayerAllGameLogs(playerId, now),
                          LAMBDA game : OnRoster(teamId, playerId, game))
        players == SetToSortedSeq(Players)
    IN  SumSeq([i \in DOMAIN players |-> Earned(players[i])])

(* C3: after any add-initial-player and buy-player requests, a team's      *)
(* totalPoints is the sum of the points of the games its players played on *)
(* the days they were on its roster, acquisition day inclusive and sale    *)
(* day exclusive, also for a player acquired as an initial pick and sold.  *)
C3_PointsWhileOnRoster ==
    Ranked =>
        \A i \in DOMAIN rankings[1] :
            rankings[1][i].totalPoints = EarnedOnRoster(rankings[1][i].teamId)

\* the team has no roster row and takes part in no transaction
C4_Untouched(team) ==
    /\ \A i \in DOMAIN rankCall.playersOnTeam : rankCall.playersOnTeam[i].team_id # team.id
    /\ \A i \in DOMAIN rankCall.transactions :
         /\ rankCall.transactions[i].buyer_team_id # team.id
         /\ rankCall.transactions[i].seller_team_id # team.id

(* C4: the list calculateRankings returns has exactly one entry per team   *)
(* of the team list and no other entry; a team without roster rows and     *)
(* transactions has totalPoints 0 and an empty weeklyBreakdown.            *)
C4_OneEntryPerTeam ==
    Ranked =>
        LET list == rankings[1]
            teams == rankCall.teams
        IN  /\ Len(list) = Len(teams)
            /\ \A t \in DOMAIN teams :
                 \E i \in DOMAIN list :
                    /\ list[i].userId = teams[t].user_id
                    /\ list[i].teamId = teams[t].id
                    /\ list[i].teamName = teams[t].team_name
                    /\ \A j \in DOMAIN list : list[j].userId = teams[t].user_id => j = i
                    /\ C4_Untouched(teams[t]) =>
                          (list[i].totalPoints = 0 /\ list[i].weeklyBreakdown = <<>>)

\* a ranking with a team that has points and a team that has neither rows
\* nor transactions
C4_Witness ==
    /\ Ranked
    /\ \E i \in DOMAIN rankings[1] : rankings[1][i].totalPoints > 0
    /\ \E t \in DOMAIN rankCall.teams : C4_Untouched(rankCall.teams[t])

(* C5: calculateWeeklyPoints counts a game iff its day is on or after the  *)
(* purchase day and, when there is a sale, strictly before the sale day:   *)
(* the buckets add up to the points of exactly those games (the points are *)
(* distinct powers of two, so equal sums mean the same games), every       *)
(* bucket holds the counted games of its week, and the result is empty     *)
(* exactly when no game is counted.                                        *)
C5_Counted(game) ==
    /\ DayOfDate(game.date) >= DayOfInstant(calIn.purchaseDate)
    /\ (calIn.saleDate = Null \/ DayOfDate(game.date) < DayOfInstant(calIn.saleDate[1]))

C5_WeeklyPointsFilter ==
    calOut.weekly # Null =>
        LET weekly == calOut.weekly[1]
            log == ProviderLog(calIn.playerId)
        IN  /\ SumSeq([i \in 1..Len(weekly) |-> weekly[i].points])
                 = PointsOfGames(log, C5_Counted)
            /\ (weekly = <<>>) <=> (SelectSeq(log, C5_Counted) = <<>>)
            /\ \A i \in 1..Len(weekly) :
                 weekly[i].points = PointsOfGames(log, LAMBDA g :
                     /\ C5_Counted(g)
                     /\ Max(1, ((DayOfDate(g.date) - DayOfInstant(calIn.seasonStartDate))
                                    \div DaysPerWeek) + 1)
                            = weekly[i].weekNumber)

\* a period with a sale whose sale day has a game that is left out, while
\* games before the sale are counted
C5_Witness ==
    /\ calOut.weekly # Null /\ calOut.weekly[1] # <<>>
    /\ calIn.saleDate # Null
    /\ \E i \in 1..Len(ProviderLog(calIn.playerId)) :
         LET g == ProviderLog(calIn.playerId)[i]
         IN  /\ DayOfDate(g.date) = DayOfInstant(calIn.saleDate[1])
             /\ DayOfDate(g.date) > DayOfInstant(calIn.purchaseDate)

(* C6: getWeekDates(getWeekNumber(d, s), s) contains d, and a day inside   *)
(* getWeekDates(w, s) has week number w: d lies in the range of week w     *)
(* exactly when getWeekNumber(d, s) = w.                                   *)
C6_InRange ==
    /\ calOut.weekDates[1].start <= calIn.date
    /\ calIn.date <= calOut.weekDates[1].end

C6_WeekInverse ==
    (calOut.weekNumber # 0 /\ calOut.weekDates # Null) =>
        /\ (calOut.rangeWeek = calOut.weekNumber => C6_InRange)
        /\ (C6_InRange => calOut.weekNumber = calOut.rangeWeek)

C8_SortedByPointsThenName ==
    Ranked =>
        \A i \in 1..(Len(rankings[1]) - 1) :
            LET a == rankings[1][i]
                b == rankings[1][i + 1]
            IN  \/ a.totalPoints > b.totalPoints
                \/ a.totalPoints = b.totalPoints /\ a.teamName <= b.teamName

\* two teams tied on points that are not zero, returned in the order of
\* their names, which is not the order the teams were created in
C8_Witness ==
    /\ Ranked
    /\ \E i \in 1..(Len(rankings[1]) - 1) :
         LET a == rankings[1][i]
             b == rankings[1][i + 1]
         IN  /\ a.totalPoints = b.totalPoints /\ a.totalPoints > 0
             /\ a.teamName < b.teamName
             /\ TeamIndex(rankCall.teams, a.userId) > TeamIndex(rankCall.teams, b.userId)


\* the inputs of a run: the teams, the ownership periods and the game logs
\* fetched, whatever order they came in
C9_Inputs(r) ==
    [teams |-> runs[r].teams, periods |-> runs[r].periods,
     gameLogs |-> Range(runs[r].playerGameLogsMap)]

(* C9: two runs of calculateRankings on the same teams, transactions,      *)
(* roster rows and game logs return the same entries with the same totals  *)
(* in the same order, whatever order the fetches completed in.             *)
C9_RunsAgree ==
    \A r1, r2 \in DOMAIN runs :
        (/\ runs[r1].stage = "done" /\ runs[r2].stage = "done"
         /\ C9_Inputs(r1) = C9_Inputs(r2))
            => runs[r1].result = runs[r2].result

\* two finished runs whose fetches completed in different orders, with two
\* teams that have the same points and a team whose points differ
C9_Witness ==
    \E r1, r2 \in DOMAIN runs :
        /\ runs[r1].stage = "done" /\ runs[r2].stage = "done"
        /\ C9_Inputs(r1) = C9_Inputs(r2)
        /\ runs[r1].playerGameLogsMap # runs[r2].playerGameLogsMap
        /\ \E i, j \in DOMAIN runs[r1].result :
             /\ i # j
             /\ runs[r1].result[i].totalPoints = runs[r1].result[j].totalPoints
             /\ runs[r1].result[i].totalPoints > 0

\* the rows of the call's table that were not older than maxAge at the call
C10_Fresh ==
    {row \in cacheCall.before : cacheCall.at - row.calculated_at <= cacheCall.maxAgeMinutes}

C11_Saved(t) == RankingsAt(t)

(* C11: a ranking saved by saveRankingsToCache and served from the cache   *)
(* while fresh is the saved ranking itself: the same teams, totalPoints    *)
(* and weeklyBreakdown, in the order calculateRankings gave them, also     *)
(* among teams with equal totalPoints.                                     *)
C11_ServedVerbatim ==
    (cacheCall.called /\ ~cacheCall.calculated) =>
        \E row \in cacheCall.before :
            cacheCall.result = C11_Saved(row.calculated_at)


(* C12: after any cache writes the table holds at most one record per      *)
(* (userId, teamId), and it is the record of the latest write for that     *)
(* key, with that write's totals and calculated_at; keys never written     *)
(* have no record.                                                         *)
C12_OneRecordPerKey ==
    /\ \A a, b \in team_rankings_cache :
         (a.user_id = b.user_id /\ a.team_id = b.team_id) => a = b
    /\ \A w \in lastWrite : ToCacheRow(w.ranking, w.at) \in team_rankings_cache
    /\ \A row \in team_rankings_cache :
         \E w \in lastWrite : w.userId = row.user_id /\ w.teamId = row.team_id

\* a key written again, later and with other totals than the first time
C12_Witness ==
    \E w \in lastWrite :
        /\ w.replaced /\ w.at > 0
        /\ w.ranking.totalPoints > 0
        /\ \E i \in DOMAIN RankingsAt(0) :
             /\ RankingsAt(0)[i].userId = w.userId
             /\ RankingsAt(0)[i].totalPoints # w.ranking.totalPoints


\* the points one ownership period takes from a game log
PeriodPoints(period, gameLogs) ==
    LET weeklyPoints == calculateWeeklyPoints(gameLogs, period.purchaseDate,
                            period.saleDate, UTCMidnight(SeasonStartDay))
    IN  SumSeq([i \in 1..Len(weeklyPoints) |-> weeklyPoints[i].points])

\* the points the periods of one user take, each from the log logs gives for
\* its player; periods of the players in skipped count nothing
UserPoints(periods, userId, logs, skipped) ==
    SumSeq([i \in 1..Len(periods) |->
               IF periods[i].userId = userId /\ periods[i].playerId \notin skipped
               THEN PeriodPoints(periods[i], logs[periods[i].playerId]) ELSE 0])

\* the log each player's fetch answered with in run r
C13_FetchedLog(r) ==
    [playerId \in Players |->
        LET entries == {e \in Range(runs[r].playerGameLogsMap) : e.playerId = playerId}
        IN  IF entries = {} THEN <<>> ELSE (CHOOSE e \in entries : TRUE).gameLogs]

(* C13: a run issues exactly one fetch per distinct player of its ownership *)
(* periods, whatever the number of periods and users that reference the    *)
(* player; each answer fills one entry, and in the finished run every      *)
(* period has been aggregated against the entry of its player.             *)
C13_FetchedOnce ==
    \A r \in DOMAIN runs :
        runs[r].stage # "idle" =>
            LET run == runs[r]
            IN  /\ \A i, j \in DOMAIN run.playerIds :
                     run.playerIds[i] = run.playerIds[j] => i = j
                /\ Range(run.playerIds) = {run.periods[k].playerId : k \in DOMAIN run.periods}
                /\ Len(run.playerGameLogsMap) + Cardinality(run.pending \cup run.stalled)
                       = Len(run.playerIds)
                /\ \A e1, e2 \in Range(run.playerGameLogsMap) :
                     e1.playerId = e2.playerId => e1 = e2
                /\ run.stage = "done" =>
                     \A i \in DOMAIN run.result :
                         run.result[i].totalPoints =
                             UserPoints(run.periods, run.result[i].userId,
                                        C13_FetchedLog(r), {})

\* a finished run with a player that periods of two users reference, whose
\* fetched log gave points to both
C13_Witness ==
    \E r \in DOMAIN runs :
        /\ runs[r].stage = "done" /\ runs[r].failed = {}
        /\ Len(runs[r].playerIds) < Len(runs[r].periods)
        /\ \E k1, k2 \in DOMAIN runs[r].periods :
             /\ runs[r].periods[k1].playerId = runs[r].periods[k2].playerId
             /\ runs[r].periods[k1].userId # runs[r].periods[k2].userId
             /\ PeriodPoints(runs[r].periods[k1],
                             C13_FetchedLog(r)[runs[r].periods[k1].playerId]) > 0
             /\ PeriodPoints(runs[r].periods[k2],
                             C13_FetchedLog(r)[runs[r].periods[k2].playerId]) > 0

\* the log every player's fetch gives when it succeeds
C14_SucceededLog == [playerId \in Players |-> getPlayerAllGameLogs(playerId, now)]

(* C14: a run in which the fetch of some players failed still returns a    *)
(* ranking with an entry for every team; the periods of the failed players *)
(* count zero and the periods of every other player count what they count  *)
(* when all fetches succeed.                                               *)
C14_FailedFetchCountsZero ==
    \A r \in DOMAIN runs :
        (runs[r].stage = "done" /\ runs[r].failed # {}) =>
            /\ {runs[r].result[i].userId : i \in DOMAIN runs[r].result}
                   = {runs[r].teams[i].user_id : i \in DOMAIN runs[r].teams}
            /\ \A i \in DOMAIN runs[r].result :
                 runs[r].result[i].totalPoints =
                     UserPoints(runs[r].periods, runs[r].result[i].userId,
                                C14_SucceededLog, runs[r].failed)

\* a finished run where one player's fetch failed though its periods would
\* have scored, and another player's periods did score
C14_Witness ==
    \E r \in DOMAIN runs :
        /\ runs[r].stage = "done"
        /\ \E p \in runs[r].failed, q \in Players \ runs[r].failed :
             \E k1, k2 \in DOMAIN runs[r].periods :
                 /\ runs[r].periods[k1].playerId = p
                 /\ PeriodPoints(runs[r].periods[k1], C14_SucceededLog[p]) > 0
                 /\ runs[r].periods[k2].playerId = q
                 /\ PeriodPoints(runs[r].periods[k2], C14_SucceededLog[q]) > 0
                 /\ \E i \in DOMAIN runs[r].result : runs[r].result[i].totalPoints > 0

(* C15: a run whose fetches have been issued eventually returns, also when *)
(* the fetch of one player never answers.                                  *)
C15_RunReturns ==
    \A r \in 1..NumRuns : (runs[r].stage = "fetching") ~> (runs[r].stage = "done")

\* the same for the runs none of whose fetches hangs
C15_RunReturnsUnlessStalled ==
    \A r \in 1..NumRuns :
        (runs[r].stage = "fetching" /\ [](runs[r].stalled = {}))
            ~> (runs[r].stage = "done")


\* the sum of the values of a weeklyBreakdown
BreakdownSum(weeklyBreakdown) ==
    LET weeks == SetToSortedSeq(DOMAIN weeklyBreakdown)
    IN  SumSeq([i \in 1..Len(weeks) |-> weeklyBreakdown[weeks[i]]])

\* userRankingsMap after the first k ownership periods of the call
C16_AfterPeriods(k) ==
    ProcessPeriods(rankCall.teams, SubSeq(rankCall.periods, 1, k),
                   rankCall.playerGameLogsMap, InitRankings(rankCall.teams, <<>>))

\* the periods of the call that give a user points in a week
C16_Feeding(userId, weekNumber) ==
    {k \in DOMAIN rankCall.periods :
        /\ rankCall.periods[k].userId = userId
        /\ \E wp \in Range(calculateWeeklyPoints(
                             GameLogsOf(rankCall.playerGameLogsMap,
                                        rankCall.periods[k].playerId),
                             rankCall.periods[k].purchaseDate,
                             rankCall.periods[k].saleDate, UTCMidnight(SeasonStartDay))) :
              wp.weekNumber = weekNumber /\ wp.points > 0}

Starters(teamId) == {r \in players_on_team : r.team_id = teamId /\ r.is_starter}
Bench(teamId) == {r \in players_on_team : r.team_id = teamId /\ ~r.is_starter}

(* C17: whatever add-initial-player, buy-player, move-player and           *)
(* swap-players requests have been served, every team has at most 5        *)
(* starters, at most 4 bench players and at most 9 players.                *)
C17_LineupLimits ==
    \A i \in DOMAIN user_teams :
        /\ Cardinality(Starters(user_teams[i].id)) <= MaxStarters
        /\ Cardinality(Bench(user_teams[i].id)) <= MaxBench
        /\ Cardinality(getTeamPlayers(players_on_team, user_teams[i].id)) <= MaxTeamPlayers


\* a row bought through buy-player whose 7 days are not over / are over
InCooldown(r) ==
    /\ r.purchased_from_user_id # Null
    /\ now < r.purchased_at[1] + CooldownDays * TicksPerDay
CooldownOver(r) ==
    /\ r.purchased_from_user_id # Null
    /\ r.purchased_at[1] + CooldownDays * TicksPerDay < now

(* C18: a row bought through buy-player at t is not sellable before        *)
(* t + 7 days, whatever buy-player, set-clause, move-player and            *)
(* swap-players requests were served since, and no buy-player request for  *)
(* it succeeds, whoever sends it and whatever price it carries.            *)
C18_NotSoldInCooldown ==
    \A r \in players_on_team :
        InCooldown(r) =>
            /\ ~r.can_be_sold
            /\ \A userId \in Users, price \in MarketPrices :
                 BuyPlayerResult(userId, r.id, price).response.status # 200

\* a row bought earlier and still in its cooldown, that has since been
\* given a clause and sent to the bench
C18_Witness ==
    \E r \in players_on_team :
        /\ InCooldown(r)
        /\ r.purchased_at[1] < now
        /\ r.release_clause # Null
        /\ ~r.is_starter

(* C19: once 7 days have passed since a row was bought, its next update    *)
(* leaves it sellable, so that buy-player no longer rejects it for         *)
(* cooldown.                                                               *)
C19_SellableAfterCooldown ==
    [][\A r \in players_on_team : \A q \in players_on_team' :
          (q.id = r.id /\ q # r /\ CooldownOver(r)) => q.can_be_sold]_vars

(* C20: every purchase is paid at the row's release clause when it has     *)
(* one and at its purchase price otherwise.                                *)
C20_PricePaid ==
    [][Len(transactions') > Len(transactions) =>
          LET tx == transactions'[Len(transactions')]
          IN  \A r \in players_on_team :
                  (r.team_id = tx.seller_team_id /\ r.player_id = tx.player_id) =>
                      tx.transaction_price =
                          IF r.release_clause # Null THEN r.release_clause[1]
                          ELSE r.purchase_price]_vars

(* C21: whatever buy-player and set-clause requests have been served on    *)
(* teams that took their initial picks, no team's budget is negative.      *)
C21_BudgetNeverNegative ==
    \A i \in DOMAIN user_teams : user_teams[i].budget >= 0

\* a step of Paso 1: the run before it, the transaction it processes, and
\* the history of the transaction's player before and after
Paso1Step ==
    /\ reconstruction # Null /\ reconstruction' # Null
    /\ reconstruction[1].stage = "transactions"
    /\ reconstruction'[1].processed = reconstruction[1].processed + 1
StepTransaction == reconstruction[1].transactions[reconstruction[1].processed + 1]
HistoryOf(run, playerId) ==
    IF playerId \in DOMAIN run.playerHistoryMap.map
    THEN run.playerHistoryMap.map[playerId] ELSE <<>>
\* the seller's still-open periods in a history, as positions
SellerOpen(history, tx) ==
    {i \in DOMAIN history :
        /\ history[i].userId = UserOfTeam(user_teams, tx.seller_team_id)[1]
        /\ history[i].teamId = tx.seller_team_id
        /\ history[i].saleDate = Null}
\* the buyer's new open period
BuyerPeriod(tx) ==
    [userId       |-> UserOfTeam(user_teams, tx.buyer_team_id)[1],
     teamId       |-> tx.buyer_team_id,
     purchaseDate |-> tx.created_at,
     saleDate     |-> Null]
\* history with the period at position i closed by tx, and the buyer's
\* period appended
ClosedAndAppended(history, i, tx) ==
    Append([history EXCEPT ![i].saleDate = Some(tx.created_at)], BuyerPeriod(tx))
\* the latest of a set of positions: the period pushed last, which is the
\* most recent since transactions come in created_at order
Latest(S) == CHOOSE i \in S : \A j \in S : j <= i
Earliest(S) == CHOOSE i \in S : \A j \in S : i <= j

(* C22: the transactions are processed in ascending created_at order; a    *)
(* transaction whose seller has open periods of the player closes the most *)
(* recent of them with saleDate = created_at, closes no other period, and  *)
(* appends one open period of the buyer starting at created_at.            *)
C22_ClosesLatestOpen ==
    [][Paso1Step =>
          LET tx == StepTransaction
              history == HistoryOf(reconstruction[1], tx.player_id)
              open == SellerOpen(history, tx)
          IN  /\ \A i \in 1..reconstruction[1].processed :
                   reconstruction[1].transactions[i].created_at <= tx.created_at
              /\ open # {} =>
                    HistoryOf(reconstruction'[1], tx.player_id)
                        = ClosedAndAppended(history, Latest(open), tx)]_vars

\* the same with the earliest of the seller's open periods closed
C22_ClosesEarliestOpen ==
    [][Paso1Step =>
          LET tx == StepTransaction
              history == HistoryOf(reconstruction[1], tx.player_id)
              open == SellerOpen(history, tx)
          IN  open # {} =>
                  HistoryOf(reconstruction'[1], tx.player_id)
                      = ClosedAndAppended(history, Earliest(open), tx)]_vars

\* the history map after the first k transactions of the run
HistoryAfter(run, k) ==
    PlayerHistoryMap(run.teams, SubSeq(run.transactions, 1, k),
                     [map |-> <<>>, keys |-> <<>>])

(* C23: a transaction whose seller has no open period of the player raises *)
(* no error and changes no existing period: the history of the player gets *)
(* the buyer's new open period appended and nothing else, the histories of *)
(* other players stay as they are, and the run goes on with the next       *)
(* transaction.                                                            *)
C23_SkipsMissingSeller ==
    [][Paso1Step =>
          LET tx == StepTransaction
              before == reconstruction[1]
              after == reconstruction'[1]
          IN  SellerOpen(HistoryOf(before, tx.player_id), tx) = {} =>
                  /\ HistoryOf(after, tx.player_id)
                         = Append(HistoryOf(before, tx.player_id), BuyerPeriod(tx))
                  /\ \A q \in DOMAIN before.playerHistoryMap.map \ {tx.player_id} :
                         HistoryOf(after, q) = HistoryOf(before, q)
                  /\ after.stage = "transactions"
                  /\ after.playerHistoryMap = HistoryAfter(before, after.processed)]_vars

\* a run that has just processed a sale by a seller without an open period
\* while the other user had one, with more transactions to come
C23_Witness ==
    /\ reconstruction # Null
    /\ LET run == reconstruction[1]
           k == run.processed
       IN  /\ run.stage = "transactions"
           /\ k >= 2 /\ k < Len(run.transactions)
           /\ LET tx == run.transactions[k]
                  history == HistoryOf([run EXCEPT !.playerHistoryMap =
                                           HistoryAfter(run, k - 1)], tx.player_id)
              IN  /\ SellerOpen(history, tx) = {}
                  /\ \E i \in DOMAIN history : history[i].saleDate = Null
                  /\ HistoryOf(run, tx.player_id) = Append(history, BuyerPeriod(tx))

\* the open periods of a list for a user, team and player, as positions
OpenFor(periods, userId, teamId) ==
    {i \in DOMAIN periods : /\ periods[i].userId = userId
                             /\ periods[i].teamId = teamId
                             /\ periods[i].saleDate = Null}
\* the start the roster row itself gives
RowDate(row) == IF row.purchased_at # Null THEN row.purchased_at[1] ELSE row.created_at

(* C24: once Paso 2 has run, the period list holds exactly one open period *)
(* for every row of players_on_team, with the row's user, team and player; *)
(* it starts where the open period the transactions produced for that      *)
(* user, team and player starts if there is one (the first, if several),   *)
(* whatever the row's own timestamp, and otherwise at the row's            *)
(* purchased_at, or created_at when purchased_at is NULL; the list has no  *)
(* other open period.                                                      *)
C24_OneOpenPeriodPerRow ==
    (reconstruction # Null /\ reconstruction[1].stage \in {"roster", "done"}) =>
        LET run == reconstruction[1]
        IN  /\ \A row \in players_on_team :
                 LET userId == UserOfTeam(user_teams, row.team_id)[1]
                     emitted == {i \in OpenFor(run.periods, userId, row.team_id) :
                                    run.periods[i].playerId = row.player_id}
                     history == HistoryOf(run, row.player_id)
                     open == OpenFor(history, userId, row.team_id)
                 IN  /\ Cardinality(emitted) = 1
                     /\ \A i \in emitted :
                          run.periods[i].purchaseDate =
                              IF open # {} THEN history[Earliest(open)].purchaseDate
                              ELSE RowDate(row)
            /\ Cardinality({i \in DOMAIN run.periods : run.periods[i].saleDate = Null})
                   = Cardinality(players_on_team)

\* a finished run with a row whose own timestamp differs from the start of
\* the open period the transactions gave its holder, a row of a player
\* without transactions, and an open period of the history whose holder
\* has no row
C24_Witness ==
    /\ reconstruction # Null
    /\ reconstruction[1].stage = "done"
    /\ \E row \in players_on_team :
          LET history == HistoryOf(reconstruction[1], row.player_id)
              open == OpenFor(history, UserOfTeam(user_teams, row.team_id)[1], row.team_id)
          IN  /\ open # {}
              /\ history[Earliest(open)].purchaseDate # RowDate(row)
              /\ \E i \in DOMAIN history :
                    history[i].saleDate = Null /\ history[i].teamId # row.team_id
    /\ \E row \in players_on_team : row.player_id = OtherPlayer

\* the closed periods Paso 1 left in a player's history, as periods of the
\* final list
ClosedPeriods(run, playerId) ==
    {[userId       |-> HistoryOf(run, playerId)[i].userId,
      teamId       |-> HistoryOf(run, playerId)[i].teamId,
      playerId     |-> playerId,
      purchaseDate |-> HistoryOf(run, playerId)[i].purchaseDate,
      saleDate     |-> HistoryOf(run, playerId)[i].saleDate] :
         i \in {j \in DOMAIN HistoryOf(run, playerId) :
                    HistoryOf(run, playerId)[j].saleDate # Null}}

(* C25: the final period list of getPlayerOwnershipPeriods holds every     *)
(* period a transaction closed exactly once, ending at the created_at of a *)
(* sale of that player by the period's team, and besides the closed        *)
(* periods only the open periods of the roster rows.                       *)
C25_EveryClosedPeriodOnce ==
    (reconstruction # Null /\ reconstruction[1].stage = "done") =>
        LET run == reconstruction[1]
        IN  /\ \A playerId \in Players : \A period \in ClosedPeriods(run, playerId) :
                 /\ Cardinality({i \in DOMAIN run.periods : run.periods[i] = period}) = 1
                 /\ \E k \in DOMAIN transactions :
                       /\ transactions[k].player_id = playerId
                       /\ transactions[k].seller_team_id = period.teamId
                       /\ Some(transactions[k].created_at) = period.saleDate
            /\ \A i \in DOMAIN run.periods :
                 \/ run.periods[i].saleDate = Null
                 \/ run.periods[i] \in ClosedPeriods(run, run.periods[i].playerId)
            /\ Cardinality({i \in DOMAIN run.periods : run.periods[i].saleDate = Null})
                   = Cardinality(players_on_team)

\* the Map a run would hold had its fetches answered in the order they were
\* issued, each with the outcome it had
C26_InIssueOrder(r) ==
    [i \in DOMAIN runs[r].playerIds |->
        [playerId |-> runs[r].playerIds[i],
         gameLogs |-> FetchGameLogs(runs[r].playerIds[i], now,
                                    IF runs[r].playerIds[i] \in runs[r].failed
                                    THEN "http_error" ELSE "ok")]]

(* C26: while fetches of a run of calculateRankings are outstanding       *)
(* nothing has been totalled (the result is still empty) and the Map holds *)
(* one entry per fetch that answered, the player's own logs under the      *)
(* player's id; the ranking returned is the one computed from the Map      *)
(* filled in the order the fetches were issued, whatever order they        *)
(* completed in.                                                           *)
C26_CompletionOrderIrrelevant ==
    \A r \in DOMAIN runs :
        /\ runs[r].stage = "fetching" => runs[r].result = <<>>
        /\ runs[r].stage \in {"fetching", "done"} =>
              /\ Range(runs[r].playerGameLogsMap) =
                    {C26_InIssueOrder(r)[i] :
                        i \in DOMAIN runs[r].playerIds \ (runs[r].pending \cup runs[r].stalled)}
              /\ Len(runs[r].playerGameLogsMap) =
                    Cardinality(DOMAIN runs[r].playerIds
                                    \ (runs[r].pending \cup runs[r].stalled))
        /\ runs[r].stage = "done" =>
              /\ runs[r].pending = {} /\ runs[r].stalled = {}
              /\ runs[r].result = calculateRankings(runs[r].teams, runs[r].periods,
                                                     C26_InIssueOrder(r))

\* a finished run whose fetches completed in another order than they were
\* issued, one of them failing, with a team that has points
C26_Witness ==
    \E r \in DOMAIN runs :
        /\ runs[r].stage = "done"
        /\ Len(runs[r].playerIds) > 1
        /\ runs[r].playerGameLogsMap # C26_InIssueOrder(r)
        /\ runs[r].failed # {}
        /\ \E i \in DOMAIN runs[r].result : runs[r].result[i].totalPoints > 0

(* C28: a buy-player request that answers with an error leaves the budgets *)
(* of all teams, the rows of players_on_team and the transaction log as    *)
(* they were before the request.                                           *)
C28_FailedBuyChangesNothing ==
    [][(response'.op = "buy" /\ response'.status # 200)
          => UNCHANGED <<user_teams, players_on_team, transactions>>]_vars

\* the rows of a user's team with one of two ids
SwapRows(userId, player1Id, player2Id) ==
    {r \in players_on_team : r.team_id = TeamIdOf(userId) /\ r.id \in {player1Id, player2Id}}
\* the request names a starter and a bench player of the user's team
StarterAndBench(userId, player1Id, player2Id) ==
    \E r1, r2 \in SwapRows(userId, player1Id, player2Id) :
        r1.id = player1Id /\ r2.id = player2Id /\ r1.is_starter # r2.is_starter
\* the step turns the is_starter flag of the rows in S (flip) or keeps it,
\* and leaves the rows' teams
FlagsAfter(S, flip) ==
    \A r \in S : \E q \in players_on_team' :
        q.id = r.id /\ q.team_id = r.team_id /\ q.is_starter = (r.is_starter # flip)
StartersOf(rows, teamId) == Cardinality({r \in rows : r.team_id = teamId /\ r.is_starter})
BenchOf(rows, teamId) == Cardinality({r \in rows : r.team_id = teamId /\ ~r.is_starter})

(* C30: a swap-players request naming a starter and a bench player of the  *)
(* requester's team, served by swap_players or by the handler's own two    *)
(* updates, exchanges the is_starter flags of the two rows, leaves every   *)
(* other row as it was and the starter and bench counts of every team      *)
(* unchanged, whatever the size of the team; a swap-players request that   *)
(* answers with an error leaves the flags of the rows it named.            *)
C30_SwapExchangesFlags ==
    [][\A userId \in Users, player1Id, player2Id \in LineupRequestIds, rpcWorks \in BOOLEAN :
          SwapPlayers(userId, player1Id, player2Id, rpcWorks) =>
              /\ StarterAndBench(userId, player1Id, player2Id) =>
                    /\ FlagsAfter(SwapRows(userId, player1Id, player2Id), TRUE)
                    /\ \A r \in players_on_team \cup players_on_team' :
                          r.id \notin {player1Id, player2Id} =>
                              r \in players_on_team \cap players_on_team'
                    /\ \A i \in DOMAIN user_teams :
                          /\ StartersOf(players_on_team', user_teams[i].id)
                                = StartersOf(players_on_team, user_teams[i].id)
                          /\ BenchOf(players_on_team', user_teams[i].id)
                                = BenchOf(players_on_team, user_teams[i].id)
              /\ response'.status # 200 =>
                    FlagsAfter(SwapRows(userId, player1Id, player2Id), FALSE)]_vars

\* the budget of a user's team and the clause of a row, NULL counting as 0
BudgetOf(teams, userId) == teams[TeamIndex(teams, userId)].budget
ClauseOf(rows, playerId) ==
    LET row == CHOOSE r \in rows : r.id = playerId
    IN  IF row.release_clause # Null THEN row.release_clause[1] ELSE 0
\* everything but the budget of a user's team and the clause of a row is as
\* it was
OnlyBudgetAndClause(userId, playerId) ==
    /\ \A i \in DOMAIN user_teams :
          /\ i \in DOMAIN user_teams'
          /\ user_teams[i].user_id # userId => user_teams'[i] = user_teams[i]
          /\ [user_teams'[i] EXCEPT !.budget = 0] = [user_teams[i] EXCEPT !.budget = 0]
    /\ \A r \in players_on_team :
          \E q \in players_on_team' :
              /\ q.id = r.id
              /\ r.id # playerId => q = r
              /\ [q EXCEPT !.release_clause = Null] = [r EXCEPT !.release_clause = Null]
    /\ Cardinality(players_on_team') = Cardinality(players_on_team)

(* C29: a set-clause request of a user for a row of the user's team that   *)
(* answers 200 sets the row's clause to the requested one and changes the  *)
(* team's budget by old clause minus new clause, so that budget plus       *)
(* clause is what it was, and changes nothing else; it is answered with an *)
(* error when the increase of the clause exceeds the budget; and a request *)
(* that answers with an error, the one whose clause update the store       *)
(* rejects included, leaves budgets and rows as they were.                 *)
C29_ClausePaidFromBudget ==
    [][response'.op = "clause" =>
       \A userId \in Users, playerId \in {r.id : r \in players_on_team},
          releaseClause \in MarketClauses, clauseUpdateWorks \in BOOLEAN :
          SetClause(userId, playerId, releaseClause, clauseUpdateWorks) =>
              /\ response'.status = 200 =>
                    /\ ClauseOf(players_on_team', playerId) = releaseClause
                    /\ BudgetOf(user_teams', userId) - BudgetOf(user_teams, userId)
                          = ClauseOf(players_on_team, playerId) - releaseClause
                    /\ BudgetOf(user_teams', userId) + ClauseOf(players_on_team', playerId)
                          = BudgetOf(user_teams, userId) + ClauseOf(players_on_team, playerId)
                    /\ OnlyBudgetAndClause(userId, playerId)
              /\ (/\ \E r \in players_on_team : r.id = playerId /\ r.team_id = TeamIdOf(userId)
                  /\ releaseClause > ClauseOf(players_on_team, playerId)
                  /\ releaseClause - ClauseOf(players_on_team, playerId)
                        > BudgetOf(user_teams, userId))
                    => response'.status = 400
              /\ ~clauseUpdateWorks => response'.status # 200
              /\ response'.status # 200 => UNCHANGED <<user_teams, players_on_team>>]_vars

\* a team that holds a row with a clause it has paid for from its budget and
\* has bought nothing, after a request whose clause update the store
\* rejected
C29_Witness ==
    /\ response = Respond(500, "clause")
    /\ transactions = <<>>
    /\ \E r \in players_on_team :
          /\ r.release_clause = Some(500000)
          /\ \E i \in DOMAIN user_teams :
                /\ user_teams[i].id = r.team_id
                /\ user_teams[i].budget = InitialBudget - PickPrice - 500000

\* a request served alone, from its arrival to its answer
RECURSIVE ServedAlone(_, _)
ServedAlone(world, request) ==
    IF request.pc = "done" THEN [world |-> world, request |-> request]
    ELSE ServedAlone(BuyStep(world, request).world, BuyStep(world, request).request)
\* the budgets after the requests of a sequence were served one after the
\* other, each from its arrival to its answer
RECURSIVE OneAfterTheOther(_, _)
OneAfterTheOther(world, reqs) ==
    IF reqs = <<>> THEN [i \in DOMAIN world.teams |-> world.teams[i].budget]
    ELSE OneAfterTheOther(
             ServedAlone(world, NewBuyRequest(Head(reqs).userId, Head(reqs).playerOnTeamId,
                                              Head(reqs).price)).world,
             Tail(reqs))
Budgets == [i \in DOMAIN user_teams |-> user_teams[i].budget]
AllAnswered == requests # <<>> /\ \A i \in DOMAIN requests : requests[i].pc = "done"

(* C27: once the buy-player requests have answered, a single request that  *)
(* answered 200 has lowered the buyer's budget by the price and raised the *)
(* seller's by the price (the sum of the budgets is what it was), and the  *)
(* budgets after two requests are those of serving the two one after the   *)
(* other, in one of the two orders.                                        *)
C27_BudgetsAsIfSequential ==
    AllAnswered =>
        /\ (Len(requests) = 1 /\ requests[1].status = 200) =>
              LET request == requests[1]
                  bi == TeamIndex(user_teams, request.userId)
                  si == CHOOSE i \in DOMAIN user_teams : i # bi
              IN  /\ Budgets[bi] = BuysStart.teams[bi].budget - request.price
                  /\ Budgets[si] = BuysStart.teams[si].budget + request.price
                  /\ Budgets[bi] + Budgets[si]
                        = BuysStart.teams[bi].budget + BuysStart.teams[si].budget
        /\ Len(requests) = 2 =>
              Budgets \in {OneAfterTheOther(BuysStart, requests),
                           OneAfterTheOther(BuysStart, <<requests[2], requests[1]>>)}

=============================================================================
